---- MODULE Spec2Model ----
(***************************************************************************)
(* Behaviour model of the Volt server: the incremental statistics of       *)
(* app/services/statistics.py, the categorizer of                          *)
(* app/services/categorization.py and BehaviorEngine.update_model of       *)
(* app/services/behavior_engine.py.                                        *)
(*                                                                         *)
(* Python floats are modelled as fixed-point numbers: the integer v stands *)
(* for the real v / SCALE, and every product, quotient and square root     *)
(* rounds down to a multiple of 1/SCALE, as every float operation rounds   *)
(* to the nearest representable value.                                     *)
(***************************************************************************)
EXTENDS Integers, Sequences, FiniteSets, TLC

\* ------------------------------------------------------------------ bounds
\* Resolution of the fixed-point numbers.
SCALE == 1000
\* update_model calls in one behaviour of Spec.
MaxCalls == 3
\* update_model calls in one behaviour of SpecConc.
MaxConcCalls == 2
\* Observations folded in one behaviour of SpecWelford.
MaxLen == 4
\* Debits folded in one behaviour of SpecSim, the example history apart.
MaxSimFolds == 2

\* ------------------------------------------------------------- fixed point
\* The float of a number given in hundredths (0.98 is Hundredths(98)).
Hundredths(h) == (h * SCALE) \div 100

\* float * float
FMul(a, b) == (a * b) \div SCALE

\* float / float
FDiv(a, b) == (a * SCALE) \div b

Min(a, b) == IF a <= b THEN a ELSE b

Max(a, b) == IF a >= b THEN a ELSE b

Abs(a) == IF a >= 0 THEN a ELSE -a

\* The largest r with r * r <= x among lo, lo + 1, ..., 46340 that the steps
\* step, step / 2, ..., 1 reach from lo (lo * lo <= x is given).
RECURSIVE SqrtSearch(_, _, _)
SqrtSearch(x, lo, step) ==
    IF step = 0 THEN lo
    ELSE IF lo + step <= 46340 /\ (lo + step) * (lo + step) <= x
    THEN SqrtSearch(x, lo + step, step \div 2)
    ELSE SqrtSearch(x, lo, step \div 2)

\* math.sqrt of a float v >= 0.
Sqrt(v) == SqrtSearch(v * SCALE, 0, 32768)

\* The absent map ({} in Python): the function of empty domain.
EmptyMap == <<>>

\* d with key k set to v (d[k] = v in Python).
Put(d, k, v) == [x \in DOMAIN d \cup {k} |-> IF x = k THEN v ELSE d[x]]

\* -------------------------------------------------------------- constants
ESSENTIAL_CATEGORIES ==
    {"GROCERIES", "UTILITIES", "RENT", "HEALTHCARE", "TRANSPORTATION"}

DISCRETIONARY_CATEGORIES == {"ENTERTAINMENT", "DINING", "SHOPPING", "TRAVEL"}

ALL_CATEGORIES == ESSENTIAL_CATEGORIES \cup DISCRETIONARY_CATEGORIES \cup {"OTHER"}

DECAY_FACTOR == Hundredths(98)

\* ELASTICITY_CONFIG, in hundredths.
ELASTICITY_CONFIG ==
    [c \in ALL_CATEGORIES |->
        CASE c = "GROCERIES" -> 15
          [] c = "UTILITIES" -> 10
          [] c = "RENT" -> 5
          [] c = "HEALTHCARE" -> 12
          [] c = "TRANSPORTATION" -> 25
          [] c = "ENTERTAINMENT" -> 75
          [] c = "DINING" -> 70
          [] c = "SHOPPING" -> 65
          [] c = "TRAVEL" -> 80
          [] c = "OTHER" -> 40]

\* The categories of MERCHANT_KEYWORDS, in the dict's iteration order.
KEYWORD_ORDER ==
    <<"GROCERIES", "UTILITIES", "RENT", "HEALTHCARE", "TRANSPORTATION",
      "DINING", "SHOPPING", "ENTERTAINMENT", "TRAVEL">>

MERCHANT_KEYWORDS ==
    [c \in {KEYWORD_ORDER[i] : i \in DOMAIN KEYWORD_ORDER} |->
        CASE c = "GROCERIES" ->
                {"grocery", "supermarket", "food mart", "fresh", "bigbasket", "grofers"}
          [] c = "UTILITIES" ->
                {"electric", "water", "gas", "internet", "broadband", "airtel", "jio"}
          [] c = "RENT" -> {"rent", "housing", "apartment", "lease"}
          [] c = "HEALTHCARE" ->
                {"hospital", "clinic", "pharmacy", "medical", "apollo", "practo"}
          [] c = "TRANSPORTATION" ->
                {"uber", "ola", "metro", "petrol", "fuel", "rapido"}
          [] c = "DINING" ->
                {"restaurant", "cafe", "swiggy", "zomato", "dining", "dominos", "mcdonald"}
          [] c = "SHOPPING" -> {"mall", "store", "shop", "amazon", "flipkart", "myntra"}
          [] c = "ENTERTAINMENT" ->
                {"movie", "netflix", "spotify", "game", "hotstar", "prime"}
          [] c = "TRAVEL" ->
                {"hotel", "flight", "travel", "booking", "makemytrip", "goibibo"}]

\* ------------------------------------------------------ StatisticsService
\* The record update_model starts a new category with.
zero_stats(amount) ==
    [count |-> 0, sum |-> 0, mean |-> 0, variance |-> 0, std_dev |-> 0,
     m2 |-> 0, min |-> amount, max |-> amount]

welford_sample_variance(stats, new_amount) ==
    LET n == stats.count + 1
        delta == new_amount - stats.mean
        mean == stats.mean + delta \div n
        delta2 == new_amount - mean
        m2 == stats.m2 + FMul(delta, delta2)
        variance == IF n > 1 THEN m2 \div (n - 1) ELSE 0
    IN  [count |-> n, sum |-> stats.sum + new_amount, mean |-> mean,
         variance |-> variance, std_dev |-> Sqrt(variance), m2 |-> m2,
         min |-> Min(stats.min, new_amount), max |-> Max(stats.max, new_amount)]

welford_first_delta_squared(stats, new_amount) ==
    LET n == stats.count + 1
        delta == new_amount - stats.mean
        mean == stats.mean + delta \div n
        m2 == stats.m2 + FMul(delta, delta)
        variance == IF n > 1 THEN m2 \div n ELSE 0
    IN  [count |-> n, sum |-> stats.sum + new_amount, mean |-> mean,
         variance |-> variance, std_dev |-> Sqrt(variance), m2 |-> m2,
         min |-> Min(stats.min, new_amount), max |-> Max(stats.max, new_amount)]

update_welford_stats(stats, new_amount) ==
    LET n == stats.count + 1
        delta == new_amount - stats.mean
        mean == stats.mean + delta \div n
        delta2 == new_amount - mean
        m2 == stats.m2 + FMul(delta, delta2)
        variance == IF n > 1 THEN m2 \div n ELSE 0
    IN  [count |-> n, sum |-> stats.sum + new_amount, mean |-> mean,
         variance |-> variance, std_dev |-> Sqrt(variance), m2 |-> m2,
         min |-> Min(stats.min, new_amount), max |-> Max(stats.max, new_amount)]

decay_scales_sum(stats, decay_factor) ==
    IF stats.count = 0 THEN stats
    ELSE [stats EXCEPT !.mean = FMul(@, decay_factor),
                       !.variance = FMul(@, decay_factor),
                       !.m2 = FMul(@, decay_factor),
                       !.sum = FMul(@, decay_factor)]

decay_scales_count(stats, decay_factor) ==
    IF stats.count = 0 THEN stats
    ELSE [stats EXCEPT !.mean = FMul(@, decay_factor),
                       !.variance = FMul(@, decay_factor),
                       !.m2 = FMul(@, decay_factor),
                       !.count = FMul(@, decay_factor)]

decay_skipped(stats, decay_factor) == stats

apply_time_decay(stats, decay_factor) ==
    IF stats.count = 0 THEN stats
    ELSE [stats EXCEPT !.mean = FMul(@, decay_factor),
                       !.variance = FMul(@, decay_factor),
                       !.m2 = FMul(@, decay_factor)]

elasticity_uncapped(category, stats) ==
    LET base_elasticity ==
            IF category \in DOMAIN ELASTICITY_CONFIG
            THEN Hundredths(ELASTICITY_CONFIG[category]) ELSE Hundredths(40)
        volatility_bonus ==
            IF stats.mean > 0
            THEN Min(Hundredths(25),
                     FMul(FDiv(Sqrt(stats.variance), stats.mean), Hundredths(50)))
            ELSE 0
    IN  base_elasticity + volatility_bonus

calculate_elasticity(category, stats) ==
    LET base_elasticity ==
            IF category \in DOMAIN ELASTICITY_CONFIG
            THEN Hundredths(ELASTICITY_CONFIG[category]) ELSE Hundredths(40)
        volatility_bonus ==
            IF stats.mean > 0
            THEN Min(Hundredths(25),
                     FMul(FDiv(Sqrt(stats.variance), stats.mean), Hundredths(50)))
            ELSE 0
    IN  Min(SCALE, base_elasticity + volatility_bonus)

impulse_uncapped(transaction, user_stats) ==
    LET amount == transaction.amount
        category == IF transaction.category = "" THEN "OTHER" ELSE transaction.category
        known == category \in DOMAIN user_stats
        mean == IF known THEN user_stats[category].mean ELSE 0
        std_dev == IF known THEN user_stats[category].std_dev ELSE SCALE
        z_factor ==
            IF mean > 0 /\ std_dev > 0
            THEN Min(SCALE, (FDiv(Abs(amount - mean), std_dev) * 10) \div 25)
            ELSE Hundredths(30)
        discretionary_mult ==
            IF category \in DISCRETIONARY_CATEGORIES THEN Hundredths(150) ELSE SCALE
        hour == IF transaction.timestamp.present THEN transaction.timestamp.hour ELSE 12
        time_mult == IF hour >= 22 \/ hour <= 6 THEN Hundredths(130) ELSE SCALE
        is_weekend == transaction.timestamp.present /\ transaction.timestamp.weekday >= 5
        weekend_mult == IF is_weekend THEN Hundredths(120) ELSE SCALE
        impulse_score ==
            FMul(FMul(FMul(z_factor, discretionary_mult), time_mult), weekend_mult)
    IN  impulse_score

\* transaction: [amount, category, timestamp]; user_stats: the category_stats map.
detect_impulse(transaction, user_stats) ==
    LET amount == transaction.amount
        category == IF transaction.category = "" THEN "OTHER" ELSE transaction.category
        known == category \in DOMAIN user_stats
        mean == IF known THEN user_stats[category].mean ELSE 0
        std_dev == IF known THEN user_stats[category].std_dev ELSE SCALE
        z_factor ==
            IF mean > 0 /\ std_dev > 0
            THEN Min(SCALE, (FDiv(Abs(amount - mean), std_dev) * 10) \div 25)
            ELSE Hundredths(30)
        discretionary_mult ==
            IF category \in DISCRETIONARY_CATEGORIES THEN Hundredths(150) ELSE SCALE
        hour == IF transaction.timestamp.present THEN transaction.timestamp.hour ELSE 12
        time_mult == IF hour >= 22 \/ hour <= 6 THEN Hundredths(130) ELSE SCALE
        is_weekend == transaction.timestamp.present /\ transaction.timestamp.weekday >= 5
        weekend_mult == IF is_weekend THEN Hundredths(120) ELSE SCALE
        impulse_score ==
            FMul(FMul(FMul(z_factor, discretionary_mult), time_mult), weekend_mult)
    IN  Min(SCALE, impulse_score)

\* -------------------------------------------------- CategorizationService
\* The MERCHANT_KEYWORDS keywords that occur in normalize(text): the text
\* lower-cased, every character outside a-z replaced by a blank, blanks
\* collapsed. The substring test is tabulated for the texts of the model.
KeywordsIn(text) ==
    CASE text = "Swiggy" -> {"swiggy"}
      [] text = "Amazon Fresh" -> {"amazon", "fresh"}
      [] text = "paid at BigBasket" -> {"bigbasket"}
      [] OTHER -> {}

\* The first index of order, from i on, whose category has a keyword in found;
\* 0 when there is none.
RECURSIVE FirstMatch(_, _)
FirstMatch(found, i) ==
    IF i > Len(KEYWORD_ORDER) THEN 0
    ELSE IF MERCHANT_KEYWORDS[KEYWORD_ORDER[i]] \cap found # {} THEN i
    ELSE FirstMatch(found, i + 1)

\* The matched category, or "" for Python's None.
categorize_rule_based(merchant, raw_message) ==
    IF merchant = "" THEN ""
    ELSE LET by_merchant == FirstMatch(KeywordsIn(merchant), 1)
             by_raw == FirstMatch(KeywordsIn(raw_message), 1)
         IN  IF by_merchant # 0 THEN KEYWORD_ORDER[by_merchant]
             ELSE IF by_raw # 0 THEN KEYWORD_ORDER[by_raw]
             ELSE ""

\* merchant.strip().lower(), tabulated for the merchants of the model.
StripLower(merchant) ==
    CASE merchant = "Swiggy" -> "swiggy"
      [] merchant = "Amazon Fresh" -> "amazon fresh"
      [] merchant = "ACME Corp" -> "acme corp"
      [] OTHER -> merchant

\* str.upper(), tabulated for the labels the classifier answers with.
Upper(label) ==
    CASE label = "travel" -> "TRAVEL"
      [] label = "crypto" -> "CRYPTO"
      [] OTHER -> label

\* What the external classifier does on one call: it answers with parseable
\* JSON (a label and a confidence in hundredths), the HTTP call raises, or the
\* answer is not the JSON asked for.
LLMResponses ==
    {[kind |-> "json", category |-> "travel", confidence |-> 90],
     [kind |-> "json", category |-> "crypto", confidence |-> 80],
     [kind |-> "call_error", category |-> "", confidence |-> 0],
     [kind |-> "malformed", category |-> "", confidence |-> 0]}

\* The classifier is not called.
NoResponse == [kind |-> "none", category |-> "", confidence |-> 0]

\* Whether categorize, called for this transaction, reaches the HTTP call.
llm_consulted(cache, transaction) ==
    /\ transaction.type = "debit"
    /\ transaction.category = ""
    /\ categorize_rule_based(transaction.merchant, transaction.rawMessage) = ""
    /\ <<StripLower(transaction.merchant), transaction.type>> \notin DOMAIN cache

\* The answers the classifier can give to this call.
ResponsesTo(cache, transaction) ==
    IF llm_consulted(cache, transaction) THEN LLMResponses ELSE {NoResponse}

llm_failure_propagates(cache, merchant, transaction_type, response) ==
    LET cache_key == <<StripLower(merchant), transaction_type>>
    IN  IF cache_key \in DOMAIN cache
        THEN [category |-> cache[cache_key].category,
              confidence |-> cache[cache_key].confidence,
              raised |-> FALSE, status |-> "cached", cache |-> cache]
        ELSE IF response.kind = "json"
        THEN LET parsed == Upper(response.category)
                 category == IF parsed \in ALL_CATEGORIES THEN parsed ELSE "OTHER"
                 result == [category |-> category,
                            confidence |-> Hundredths(response.confidence)]
             IN  [category |-> category, confidence |-> result.confidence,
                  raised |-> FALSE, status |-> "ok",
                  cache |-> Put(cache, cache_key, result)]
        ELSE [category |-> "", confidence |-> 0,
              raised |-> TRUE, status |-> "failed", cache |-> cache]

llm_label_unvalidated(cache, merchant, transaction_type, response) ==
    LET cache_key == <<StripLower(merchant), transaction_type>>
    IN  IF cache_key \in DOMAIN cache
        THEN [category |-> cache[cache_key].category,
              confidence |-> cache[cache_key].confidence,
              raised |-> FALSE, status |-> "cached", cache |-> cache]
        ELSE IF response.kind = "json"
        THEN LET parsed == Upper(response.category)
                 category == parsed
                 result == [category |-> category,
                            confidence |-> Hundredths(response.confidence)]
             IN  [category |-> category, confidence |-> result.confidence,
                  raised |-> FALSE, status |-> "ok",
                  cache |-> Put(cache, cache_key, result)]
        ELSE [category |-> "OTHER", confidence |-> Hundredths(30),
              raised |-> FALSE, status |-> "failed", cache |-> cache]

\* The result, whether the call raised, and the cache after the call.
categorize_with_llm(cache, merchant, transaction_type, response) ==
    LET cache_key == <<StripLower(merchant), transaction_type>>
    IN  IF cache_key \in DOMAIN cache
        THEN [category |-> cache[cache_key].category,
              confidence |-> cache[cache_key].confidence,
              raised |-> FALSE, status |-> "cached", cache |-> cache]
        ELSE IF response.kind = "json"
        THEN LET parsed == Upper(response.category)
                 category == IF parsed \in ALL_CATEGORIES THEN parsed ELSE "OTHER"
                 result == [category |-> category,
                            confidence |-> Hundredths(response.confidence)]
             IN  [category |-> category, confidence |-> result.confidence,
                  raised |-> FALSE, status |-> "ok",
                  cache |-> Put(cache, cache_key, result)]
        ELSE [category |-> "OTHER", confidence |-> Hundredths(30),
              raised |-> FALSE, status |-> "failed", cache |-> cache]

categorize(cache, merchant, raw_message, transaction_type, response) ==
    LET category == categorize_rule_based(merchant, raw_message)
    IN  IF category # ""
        THEN [category |-> category, confidence |-> Hundredths(95),
              raised |-> FALSE, status |-> "rule", cache |-> cache]
        ELSE categorize_with_llm(cache, merchant, transaction_type, response)

\* ------------------------------------------------------------------ state
VARIABLES
    db,                 \* the behaviour_models table: a set of rows, one per user
    llm_cache,          \* CategorizationService.llm_cache
    clock,              \* the time: the number of update_model calls begun
    tx,                 \* the transaction of the latest call, as it was passed
    tx_category,        \* transaction.category after the latest call
    outcome,            \* how the latest call ended: "none", "returned", "raised"
    llm_status,         \* the categorizer's path in the latest call
    categorizer_calls,  \* the number of categorize calls made so far
    folded,             \* the debit transactions folded so far, in order
    pc,                 \* SpecConc: each request's position in update_model
    snap,               \* SpecConc: the row each request read from the table
    arg,                \* SpecConc: each request's transaction
    overlapped,         \* SpecConc: two requests held a row at the same time
    wstats,             \* SpecWelford: the running record
    wseq,               \* SpecWelford: the amounts folded into it
    calc,               \* SpecStats: the StatisticsService call made last
    sim,                \* SpecSim: the simulation call made last, and its result
    rng,                \* the random module's generator: its seed, draws since
    proj                \* SpecProj: each projection call's position and amounts

vars ==
    <<db, llm_cache, clock, tx, tx_category, outcome, llm_status,
      categorizer_calls, folded, pc, snap, arg, overlapped, wstats, wseq, calc,
      sim, rng, proj>>

engine_vars ==
    <<db, llm_cache, clock, tx, tx_category, outcome, llm_status,
      categorizer_calls, folded>>

conc_vars == <<pc, snap, arg, overlapped>>

welford_vars == <<wstats, wseq, calc>>

sim_vars == <<sim>>

proj_vars == <<rng, proj>>

\* ----------------------------------------------------------------- inputs
\* The one user of the model.
USER == 1

Requests == {1, 2}

\* No StatisticsService call was made yet.
NoCalc == [op |-> "none"]

\* The projection calls in flight at one time in SpecProj.
Projectors == {1, 2}

\* The generator before any projection seeded it.
Unseeded == [seed |-> 0, draws |-> 0]

\* No projection call in flight.
NoProjection == [at |-> "idle"]

NoTimestamp == [present |-> FALSE, hour |-> 0, weekday |-> 0]

\* No timestamp, and a Saturday at 23:00 (weekday() has Monday = 0).
Timestamps ==
    {NoTimestamp, [present |-> TRUE, hour |-> 23, weekday |-> 5]}

Amounts == {10 * SCALE, 30 * SCALE}

TxTypes == {"debit", "credit"}

\* Debits the ingestion pipeline categorized already, debits it left without
\* a category (category None is ""), and credits.
Transactions ==
    [type : {"debit"}, category : {"DINING", "GROCERIES"}, amount : Amounts,
     merchant : {""}, rawMessage : {""}, timestamp : Timestamps]
    \cup
    [type : {"debit"}, category : {""}, amount : Amounts,
     merchant : {"Swiggy", "ACME Corp"}, rawMessage : {""}, timestamp : {NoTimestamp}]
    \cup
    [type : {"credit"}, category : {"", "DINING"}, amount : {30 * SCALE},
     merchant : {"ACME Corp"}, rawMessage : {""}, timestamp : Timestamps]

NoTransaction ==
    [type |-> "", category |-> "", amount |-> 0, merchant |-> "",
     rawMessage |-> "", timestamp |-> NoTimestamp]

\* No simulation was called since the model was updated last.
NoCall == [op |-> "none"]

\* ----------------------------------------------------------- BehaviorEngine
BehaviourModel(user_id, now) ==
    [user_id |-> user_id, category_stats |-> EmptyMap, elasticity |-> EmptyMap,
     baselines |-> EmptyMap, impulse_score |-> 0, habits |-> EmptyMap,
     monthly_patterns |-> EmptyMap, last_updated |-> now, transaction_count |-> 0]

\* db.query(BehaviourModel).filter_by(user_id=user_id)
query_model(d, user_id) == {r \in d : r.user_id = user_id}

\* The table after "get or create": a missing row is added and committed.
get_or_create(d, user_id, now) ==
    IF query_model(d, user_id) = {} THEN d \cup {BehaviourModel(user_id, now)} ELSE d

\* The table with the user's row replaced by model (the caller's commit).
commit_model(d, model) == (d \ query_model(d, model.user_id)) \cup {model}

decay_every_category(stats, category, amount) ==
    LET decayed == [c \in DOMAIN stats |-> apply_time_decay(stats[c], DECAY_FACTOR)]
        started ==
            IF category \notin DOMAIN decayed
            THEN Put(decayed, category, zero_stats(amount))
            ELSE decayed
    IN  Put(started, category, update_welford_stats(started[category], amount))

\* The category's record after time decay and the Welford update.
fold_stats(stats, category, amount) ==
    LET decayed ==
            IF category \in DOMAIN stats
            THEN Put(stats, category, apply_time_decay(stats[category], DECAY_FACTOR))
            ELSE stats
        started ==
            IF category \notin DOMAIN decayed
            THEN Put(decayed, category, zero_stats(amount))
            ELSE decayed
    IN  Put(started, category, update_welford_stats(started[category], amount))

baseline_overwritten(baselines, category, st) ==
    Put(baselines, category, Max(0, st.mean - FMul(Hundredths(150), st.std_dev)))

update_baseline(baselines, category, st) ==
    LET baseline == Max(0, st.mean - FMul(Hundredths(150), st.std_dev))
    IN  IF category \notin DOMAIN baselines
        THEN Put(baselines, category, baseline)
        ELSE Put(baselines, category, Min(baselines[category], baseline))

impulse_weights_swapped(impulse_score, impulse_flag) ==
    FMul(Hundredths(10), impulse_score) + FMul(Hundredths(90), impulse_flag)

update_impulse_score(impulse_score, impulse_flag) ==
    FMul(Hundredths(90), impulse_score) + FMul(Hundredths(10), impulse_flag)

increment_from_one(s, i) == [s EXCEPT ![i] = @ + 1]

\* s with its element at index i (from 0) raised by one.
Increment(s, i) == [s EXCEPT ![i + 1] = @ + 1]

track_habits(habits, timestamp) ==
    IF ~timestamp.present THEN habits
    ELSE LET hourly ==
                 IF "hourly_distribution" \in DOMAIN habits
                 THEN habits["hourly_distribution"] ELSE [i \in 1..24 |-> 0]
             weekly ==
                 IF "weekly_distribution" \in DOMAIN habits
                 THEN habits["weekly_distribution"] ELSE [i \in 1..7 |-> 0]
         IN  Put(Put(habits, "hourly_distribution", Increment(hourly, timestamp.hour)),
                 "weekly_distribution", Increment(weekly, timestamp.weekday))

transaction_count_kept(transaction_count) == transaction_count

\* model.transaction_count += 1
next_transaction_count(transaction_count) == transaction_count + 1

\* The row after a debit transaction of a known category is folded into it.
fold_transaction(model, transaction, now) ==
    LET category == transaction.category
        amount == transaction.amount
        updated(stats) ==
            LET elasticity ==
                    Put(model.elasticity, category,
                        calculate_elasticity(category, stats[category]))
                baselines ==
                    update_baseline(model.baselines, category, stats[category])
                impulse_flag == detect_impulse(transaction, stats)
            IN  [model EXCEPT
                    !.category_stats = stats,
                    !.elasticity = elasticity,
                    !.baselines = baselines,
                    !.impulse_score = update_impulse_score(@, impulse_flag),
                    !.habits = track_habits(@, transaction.timestamp),
                    !.transaction_count = next_transaction_count(@),
                    !.last_updated = now]
    IN  \* stats is the category_stats map after the one decay and update.
        CHOOSE m \in {updated(stats) :
                         stats \in {fold_stats(model.category_stats, category,
                                               amount)}} : TRUE

type_test_missing(transaction) == FALSE

\* "Only process debit transactions": whether update_model returns the row
\* untouched.
not_processed(transaction) == transaction.type # "debit"

\* What update_model does after it has the row: nothing for a credit, else
\* categorize when the category is missing and fold the transaction.
process_transaction(model, cache, transaction, response, now) ==
    IF not_processed(transaction)
    THEN [model |-> model, cache |-> cache, category |-> transaction.category,
          outcome |-> "returned", status |-> "not_called", categorized |-> 0,
          changed |-> FALSE]
    ELSE IF transaction.category # ""
    THEN [model |-> fold_transaction(model, transaction, now), cache |-> cache,
          category |-> transaction.category, outcome |-> "returned",
          status |-> "not_called", categorized |-> 0, changed |-> TRUE]
    ELSE LET categorized(c) ==
                 IF c.raised
                 THEN [model |-> model, cache |-> c.cache, category |-> "",
                       outcome |-> "raised", status |-> c.status, categorized |-> 1,
                       changed |-> FALSE]
                 ELSE [model |->
                           fold_transaction(model,
                               [transaction EXCEPT !.category = c.category], now),
                       cache |-> c.cache, category |-> c.category,
                       outcome |-> "returned", status |-> c.status,
                       categorized |-> 1, changed |-> TRUE]
         IN  \* c is what the one categorize call of update_model returned.
             CHOOSE r \in {categorized(c) :
                              c \in {categorize(cache, transaction.merchant,
                                                transaction.rawMessage,
                                                transaction.type, response)}} : TRUE

create_on_first_debit(d, cache, user_id, transaction, response, now) ==
    IF not_processed(transaction)
    THEN [db |-> d, cache |-> cache, category |-> transaction.category,
          outcome |-> "returned", status |-> "not_called", categorized |-> 0,
          changed |-> FALSE]
    ELSE LET created == get_or_create(d, user_id, now)
             model == CHOOSE r \in query_model(created, user_id) : TRUE
             r == process_transaction(model, cache, transaction, response, now)
         IN  [db |-> IF r.changed THEN commit_model(created, r.model) ELSE created,
              cache |-> r.cache, category |-> r.category, outcome |-> r.outcome,
              status |-> r.status, categorized |-> r.categorized,
              changed |-> r.changed]

\* One serialized update_model call and its caller's commit.
update_model(d, cache, user_id, transaction, response, now) ==
    LET created == get_or_create(d, user_id, now)
        model == CHOOSE r \in query_model(created, user_id) : TRUE
        r == process_transaction(model, cache, transaction, response, now)
    IN  [db |-> IF r.changed THEN commit_model(created, r.model) ELSE created,
         cache |-> r.cache, category |-> r.category, outcome |-> r.outcome,
         status |-> r.status, categorized |-> r.categorized, changed |-> r.changed]

\* ---------------------------------------------------------------- actions
Init ==
    /\ db = {}
    /\ llm_cache = EmptyMap
    /\ clock = 0
    /\ tx = NoTransaction
    /\ tx_category = ""
    /\ outcome = "none"
    /\ llm_status = "not_called"
    /\ categorizer_calls = 0
    /\ folded = <<>>
    /\ pc = [p \in Requests |-> "idle"]
    /\ snap = [p \in Requests |-> BehaviourModel(USER, 0)]
    /\ arg = [p \in Requests |-> NoTransaction]
    /\ overlapped = FALSE
    /\ wstats = zero_stats(0)
    /\ wseq = <<>>
    /\ calc = NoCalc
    /\ sim = NoCall
    /\ rng = Unseeded
    /\ proj = [p \in Projectors |-> NoProjection]

\* update_model(db, user_id, transaction), run to its end with no other call
\* of the user in flight, and the caller's commit.
UpdateModel(transaction, response) ==
    /\ clock < MaxCalls
    /\ response \in ResponsesTo(llm_cache, transaction)
    /\ LET r == update_model(db, llm_cache, USER, transaction, response, clock + 1)
       IN  /\ db' = r.db
           /\ llm_cache' = r.cache
           /\ tx_category' = r.category
           /\ outcome' = r.outcome
           /\ llm_status' = r.status
           /\ categorizer_calls' = categorizer_calls + r.categorized
           /\ folded' =
                IF r.changed
                THEN Append(folded, [transaction EXCEPT !.category = r.category])
                ELSE folded
    /\ clock' = clock + 1
    /\ tx' = transaction
    /\ UNCHANGED <<conc_vars, welford_vars, sim_vars, proj_vars>>

Next == \E transaction \in Transactions, response \in LLMResponses \cup {NoResponse} :
            UpdateModel(transaction, response)

Spec == Init /\ [][Next]_vars

\* ------------------------------------------- update_model, not serialized
\* A request reads (or creates) the user's row: update_model up to its type
\* test. A credit returns here; a debit goes on holding the row it read.
Load(p, transaction) ==
    /\ pc[p] = "idle"
    /\ clock < MaxConcCalls
    /\ clock' = clock + 1
    /\ db' = get_or_create(db, USER, clock + 1)
    /\ IF transaction.type # "debit"
       THEN /\ tx' = transaction
            /\ tx_category' = transaction.category
            /\ outcome' = "returned"
            /\ llm_status' = "not_called"
            /\ UNCHANGED <<pc, snap, arg, overlapped>>
       ELSE /\ pc' = [pc EXCEPT ![p] = "loaded"]
            /\ snap' = [snap EXCEPT ![p] = CHOOSE r \in query_model(db', USER) : TRUE]
            /\ arg' = [arg EXCEPT ![p] = transaction]
            /\ overlapped' = (overlapped \/ \E q \in Requests \ {p} : pc[q] = "loaded")
            /\ UNCHANGED <<tx, tx_category, outcome, llm_status>>
    /\ UNCHANGED <<llm_cache, categorizer_calls, folded, welford_vars, sim_vars, proj_vars>>

\* The request categorizes, folds the transaction into the row it read and
\* its caller commits that row.
Store(p, response) ==
    /\ pc[p] = "loaded"
    /\ response \in ResponsesTo(llm_cache, arg[p])
    /\ \E r \in {process_transaction(snap[p], llm_cache, arg[p], response, clock)} :
           /\ db' = IF r.changed THEN commit_model(db, r.model) ELSE db
           /\ llm_cache' = r.cache
           /\ tx_category' = r.category
           /\ outcome' = r.outcome
           /\ llm_status' = r.status
           /\ categorizer_calls' = categorizer_calls + r.categorized
           /\ folded' =
                IF r.changed
                THEN Append(folded, [arg[p] EXCEPT !.category = r.category])
                ELSE folded
    /\ tx' = arg[p]
    /\ pc' = [pc EXCEPT ![p] = "idle"]
    /\ UNCHANGED <<clock, snap, arg, overlapped, welford_vars, sim_vars, proj_vars>>

NextConc ==
    \E p \in Requests :
        \/ \E transaction \in Transactions : Load(p, transaction)
        \/ \E response \in LLMResponses \cup {NoResponse} : Store(p, response)

SpecConc == Init /\ [][NextConc]_vars

\* ------------------------------------------ update_welford_stats, iterated
WelfordAmounts == {5 * SCALE, 10 * SCALE, 20 * SCALE, 30 * SCALE}

\* One more amount is folded into the running record; the record starts as
\* update_model starts the record of a new category.
WelfordFold(amount) ==
    /\ Len(wseq) < MaxLen
    /\ wstats' = update_welford_stats(
                    IF wseq = <<>> THEN zero_stats(amount) ELSE wstats, amount)
    /\ wseq' = Append(wseq, amount)
    /\ UNCHANGED <<engine_vars, conc_vars, sim_vars, proj_vars, calc>>

NextWelford == \E amount \in WelfordAmounts : WelfordFold(amount)

SpecWelford == Init /\ [][NextWelford]_vars

\* ------------------------------------- StatisticsService, on any record
\* Consecutive decays of one record in a behaviour of SpecStats.
MaxDecays == 3

\* Means and variances of the records: 0, 0.10, 10 and 50; 0, 0.001, 25 and
\* 400.
StatMeans == {0, Hundredths(10), 10 * SCALE, 50 * SCALE}

StatVariances == {0, 1, 25 * SCALE, 400 * SCALE}

StatCounts == {0, 1, 5}

\* A stats record of the given count, mean and variance.
stats_record(count, mean, variance) ==
    [count |-> count, sum |-> count * mean, mean |-> mean, variance |-> variance,
     std_dev |-> Sqrt(variance), m2 |-> count * variance, min |-> mean, max |-> mean]

StatsRecords ==
    {stats_record(count, mean, variance) :
        count \in StatCounts, mean \in StatMeans, variance \in StatVariances}

\* The configured categories and one that is not configured.
StatCategories == ALL_CATEGORIES \cup {"CRYPTO"}

\* A call reads nothing that an earlier call wrote: each call is made on
\* the initial state, and only a decay is followed by a further call.
CalculateElasticity(category, stats) ==
    /\ calc = NoCalc
    /\ calc' = [op |-> "calculate_elasticity",
                category |-> category,
                stats |-> stats,
                result |-> calculate_elasticity(category, stats)]
    /\ UNCHANGED <<engine_vars, conc_vars, wstats, wseq, sim_vars, proj_vars>>

\* Transactions of any category or none, timestamped or not: a Wednesday at
\* noon, a Saturday at 23:00, a Sunday at 03:00.
ImpulseTransactions ==
    [type : {"debit"}, category : {"", "DINING", "GROCERIES", "CRYPTO"},
     amount : {Hundredths(1), 10 * SCALE, 100 * SCALE},
     merchant : {""}, rawMessage : {""},
     timestamp : {NoTimestamp,
                  [present |-> TRUE, hour |-> 12, weekday |-> 2],
                  [present |-> TRUE, hour |-> 23, weekday |-> 5],
                  [present |-> TRUE, hour |-> 3, weekday |-> 6]}]

\* Per-category stats maps: the empty one, and maps that hold one record for
\* DINING, GROCERIES or OTHER.
ImpulseStats ==
    {EmptyMap}
    \cup {Put(EmptyMap, category, stats) :
            category \in {"DINING", "GROCERIES", "OTHER"}, stats \in StatsRecords}

DetectImpulse(transaction, user_stats) ==
    /\ calc = NoCalc
    /\ calc' = [op |-> "detect_impulse",
                transaction |-> transaction,
                user_stats |-> user_stats,
                result |-> detect_impulse(transaction, user_stats)]
    /\ UNCHANGED <<engine_vars, conc_vars, wstats, wseq, sim_vars, proj_vars>>

DecayFactors == {DECAY_FACTOR, Hundredths(50)}

\* apply_time_decay on a record that no decay produced.
ApplyTimeDecay(stats, decay_factor) ==
    /\ calc = NoCalc
    /\ calc' = [op |-> "apply_time_decay",
                first |-> stats,
                stats |-> stats,
                decay_factor |-> decay_factor,
                decays |-> 1,
                result |-> apply_time_decay(stats, decay_factor)]
    /\ UNCHANGED <<engine_vars, conc_vars, wstats, wseq, sim_vars, proj_vars>>

\* apply_time_decay on the record the decay before returned, with no new
\* observation in between.
DecayAgain(decay_factor) ==
    /\ calc.op = "apply_time_decay"
    /\ calc.decays < MaxDecays
    /\ calc' = [calc EXCEPT !.stats = calc.result,
                            !.decay_factor = decay_factor,
                            !.decays = @ + 1,
                            !.result = apply_time_decay(calc.result, decay_factor)]
    /\ UNCHANGED <<engine_vars, conc_vars, wstats, wseq, sim_vars, proj_vars>>

NextStats ==
    \/ \E category \in StatCategories, stats \in StatsRecords :
            CalculateElasticity(category, stats)
    \/ \E transaction \in ImpulseTransactions, user_stats \in ImpulseStats :
            DetectImpulse(transaction, user_stats)
    \/ \E stats \in StatsRecords, decay_factor \in DecayFactors :
            ApplyTimeDecay(stats, decay_factor)
    \/ \E decay_factor \in DecayFactors : DecayAgain(decay_factor)

SpecStats == Init /\ [][NextStats]_vars

\* ------------------------------------------ update_model, awaiting the LLM
\* _call_gemini opens aiohttp.ClientSession() with no timeout argument, so
\* the session runs with aiohttp's default ClientTimeout(total = 5 minutes):
\* when the classifier has not answered by then, the awaited request raises
\* asyncio.TimeoutError, an Exception, inside the try of categorize_with_llm.
TimeoutError == [kind |-> "timeout", category |-> "", confidence |-> 0]

no_total_timeout(p) == FALSE

\* The session's timer fires while request p awaits the classifier: the call
\* goes on as after any failed HTTP call.
Timeout(p) ==
    /\ pc[p] = "loaded"
    /\ llm_consulted(llm_cache, arg[p])
    /\ \E r \in {process_transaction(snap[p], llm_cache, arg[p], TimeoutError, clock)} :
           /\ db' = IF r.changed THEN commit_model(db, r.model) ELSE db
           /\ llm_cache' = r.cache
           /\ tx_category' = r.category
           /\ outcome' = r.outcome
           /\ categorizer_calls' = categorizer_calls + r.categorized
           /\ folded' =
                IF r.changed
                THEN Append(folded, [arg[p] EXCEPT !.category = r.category])
                ELSE folded
    /\ llm_status' = "timed_out"
    /\ tx' = arg[p]
    /\ pc' = [pc EXCEPT ![p] = "idle"]
    /\ UNCHANGED <<clock, snap, arg, overlapped, welford_vars, sim_vars, proj_vars>>

\* The request whose calls SpecAwait follows.
AwaitingRequest == CHOOSE p \in Requests : TRUE

\* One request at a time: the call reads the row, and then either needs no
\* classifier and runs to its end, or awaits the classifier, which answers,
\* fails, or stays silent until the timer fires.
NextAwait ==
    \/ \E transaction \in Transactions : Load(AwaitingRequest, transaction)
    \/ \E response \in LLMResponses \cup {NoResponse} : Store(AwaitingRequest, response)
    \/ Timeout(AwaitingRequest)

\* The coroutine runs on when it awaits nothing, and the event loop fires the
\* timer; nothing makes the classifier answer.
SpecAwait ==
    /\ Init
    /\ [][NextAwait]_vars
    /\ WF_vars(Store(AwaitingRequest, NoResponse))
    /\ WF_vars(Timeout(AwaitingRequest))

\* ------------------------------------------------------ SimulationService
\* float * float, for factors whose product in units of 1/SCALE^2 is too
\* large for one multiplication; the value is that of FMul.
FMulWide(a, b) == (a \div SCALE) * b + ((a % SCALE) * b) \div SCALE

\* round(v, ndigits) for ndigits = 1, 2: the nearest multiple of 1/10^ndigits.
round(v, ndigits) ==
    LET q == IF ndigits = 1 THEN 10 ELSE 100
    IN  (((2 * v * q + SCALE) \div (2 * SCALE)) * SCALE) \div q

\* sum(float(t.amount) for t in txs)
RECURSIVE sum_amounts(_)
sum_amounts(txs) ==
    IF txs = <<>> THEN 0 ELSE Head(txs).amount + sum_amounts(Tail(txs))

\* The sum of the values of a map of numbers.
RECURSIVE sum_values(_)
sum_values(f) ==
    IF DOMAIN f = {} THEN 0
    ELSE LET c == CHOOSE x \in DOMAIN f : TRUE
         IN  f[c] + sum_values([x \in DOMAIN f \ {c} |-> f[x]])

\* target_categories: None, or a list of category names without repetition.
NoCategories == [omitted |-> TRUE, names |-> {}]

CategoryList(names) == [omitted |-> FALSE, names |-> names]

\* "if target_categories:": a list was given and it is not empty.
truthy(target_categories) ==
    ~target_categories.omitted /\ target_categories.names # {}

\* A call that raised instead of returning.
Raised(kind, message) == [raised |-> kind, message |-> message]

\* What the loop of simulate_spending_scenario computes for one category:
\* the CategoryAnalysis, and monthly_change and achievable_change_pct before
\* they are rounded.
analyse_category(model, category, scenario_type, target_percent) ==
    LET cat_stats == model.category_stats[category]
        mean_spending == cat_stats.mean
        category_elasticity ==
            IF category \in DOMAIN model.elasticity
            THEN model.elasticity[category] ELSE Hundredths(30)
        max_change_pct ==
            IF scenario_type = "reduction" THEN category_elasticity * 100
            ELSE IF category \in ESSENTIAL_CATEGORIES
            THEN Min(50 * SCALE, category_elasticity * 80)
            ELSE Min(200 * SCALE, category_elasticity * 150)
        capped == Min(target_percent, max_change_pct)
        achievable_change_pct ==
            IF scenario_type = "reduction" /\ category \in DISCRETIONARY_CATEGORIES
            THEN Min(capped + model.impulse_score * 15, max_change_pct)
            ELSE capped
        monthly_change == FMul(mean_spending, achievable_change_pct \div 100)
        confidence ==
            Min(SCALE,
                FMul((cat_stats.count * SCALE) \div 20,
                     SCALE - FDiv(cat_stats.variance,
                                  FMulWide(mean_spending, mean_spending) + SCALE)))
        difficulty ==
            IF achievable_change_pct >= FMul(target_percent, Hundredths(90))
            THEN "easy"
            ELSE IF achievable_change_pct >= FMul(target_percent, Hundredths(60))
            THEN "moderate"
            ELSE "challenging"
    IN  [current_monthly |-> round(mean_spending, 2),
         max_reduction_pct |-> round(max_change_pct, 1),
         achievable_reduction_pct |-> round(achievable_change_pct, 1),
         monthly_savings |-> round(monthly_change, 2),
         confidence |-> round(confidence, 2),
         difficulty |-> difficulty,
         monthly_change |-> monthly_change,
         achievable_change_pct |-> achievable_change_pct]

\* The categories _generate_recommendations names; a model of at most three
\* categories has them all among sorted_cats[:3].
generate_recommendations(category_analysis, impulse_score, scenario_type, target_categories) ==
    IF scenario_type = "reduction"
    THEN {c \in DOMAIN category_analysis :
              category_analysis[c].monthly_savings > 100 * SCALE}
         \cup (IF impulse_score > Hundredths(60) THEN {"IMPULSE_CONTROL"} ELSE {})
    ELSE {c \in DOMAIN category_analysis :
              category_analysis[c].monthly_savings > 50 * SCALE}
         \cup (IF truthy(target_categories) THEN {"BUDGETING"} ELSE {})

feasibility_boundaries_excluded(actual_change_pct, target_percent) ==
    IF actual_change_pct > FMul(target_percent, Hundredths(90))
    THEN "highly_achievable"
    ELSE IF actual_change_pct > FMul(target_percent, Hundredths(70))
    THEN "achievable"
    ELSE IF actual_change_pct > FMul(target_percent, Hundredths(50))
    THEN "challenging"
    ELSE "unrealistic"

\* The feasibility bucket of an achieved percentage against the target.
feasibility_of(actual_change_pct, target_percent) ==
    IF actual_change_pct >= FMul(target_percent, Hundredths(90))
    THEN "highly_achievable"
    ELSE IF actual_change_pct >= FMul(target_percent, Hundredths(70))
    THEN "achievable"
    ELSE IF actual_change_pct >= FMul(target_percent, Hundredths(50))
    THEN "challenging"
    ELSE "unrealistic"

every_list_filters(stats, target_categories) ==
    IF ~target_categories.omitted
    THEN target_categories.names \cap DOMAIN stats
    ELSE DOMAIN stats

\* categories_to_analyze: the listed categories that the model has, or all
\* the model's categories when no list, or an empty one, was given.
categories_of(stats, target_categories) ==
    IF truthy(target_categories)
    THEN target_categories.names \cap DOMAIN stats
    ELSE DOMAIN stats

\* d: the behaviour_models table; txs: the user's debit transactions of the
\* last time_period_days. The SimulationResponse, with actual_change_pct as
\* it is before rounding, or the error raised.
simulate_spending_scenario(d, txs, user_id, scenario_type, target_percent, target_categories) ==
    IF query_model(d, user_id) = {}
    THEN Raised("ValueError", "No behavior model found for user")
    ELSE IF txs = <<>>
    THEN Raised("ValueError", "No transactions found in the specified period")
    ELSE
    LET model == CHOOSE r \in query_model(d, user_id) : TRUE
        baseline_total == sum_amounts(txs)
        stats == model.category_stats
        categories_to_analyze == categories_of(stats, target_categories)
    IN  IF truthy(target_categories) /\ categories_to_analyze = {}
        THEN Raised("ValueError",
                    "None of the specified categories found in user data")
        ELSE
        LET category_breakdown ==
                [c \in categories_to_analyze |->
                    analyse_category(model, c, scenario_type, target_percent)]
            total_achievable_change ==
                sum_values([c \in categories_to_analyze |->
                               category_breakdown[c].monthly_change])
            projected_total ==
                IF scenario_type = "reduction"
                THEN baseline_total - total_achievable_change
                ELSE baseline_total + total_achievable_change
            actual_change_pct ==
                IF baseline_total > 0
                THEN FDiv(total_achievable_change, baseline_total) * 100
                ELSE 0
        IN  [raised |-> "",
             scenario_type |-> scenario_type,
             target_percent |-> target_percent,
             achievable_percent |-> round(actual_change_pct, 1),
             baseline_monthly |-> round(baseline_total, 2),
             projected_monthly |-> round(projected_total, 2),
             total_change |-> round(total_achievable_change, 2),
             annual_impact |-> round(total_achievable_change * 12, 2),
             feasibility |-> feasibility_of(actual_change_pct, target_percent),
             category_breakdown |-> category_breakdown,
             recommendations |->
                 generate_recommendations(category_breakdown, model.impulse_score,
                                          scenario_type, target_categories),
             targeted_categories |-> target_categories,
             actual_change_pct |-> actual_change_pct]

\* The CategoryReallocation of one entry of reallocations, change an amount.
reallocate_category(model, category, change) ==
    IF category \in {"SAVINGS", "OTHER"} /\ change > 0
    THEN [current_monthly |-> 0, change_amount |-> change, new_monthly |-> change,
          change_percent |-> 100 * SCALE, feasibility |-> "comfortable"]
    ELSE
    LET stats == model.category_stats
        current == IF category \in DOMAIN stats THEN stats[category].mean ELSE 0
        new_amount == current + change
        change_percent == IF current > 0 THEN FDiv(change, current) * 100 ELSE 0
        category_elasticity ==
            IF category \in DOMAIN model.elasticity
            THEN model.elasticity[category] ELSE Hundredths(30)
        max_reduction_pct == category_elasticity * 100
        reduction_pct == Abs(change_percent)
        feasibility ==
            IF change < 0
            THEN IF reduction_pct <= FMul(max_reduction_pct, Hundredths(50))
                 THEN "comfortable"
                 ELSE IF reduction_pct <= max_reduction_pct THEN "moderate"
                 ELSE IF reduction_pct <= FMul(max_reduction_pct, Hundredths(150))
                 THEN "difficult"
                 ELSE "unrealistic"
            ELSE IF category \in ESSENTIAL_CATEGORIES
            THEN IF change_percent <= 20 * SCALE THEN "comfortable"
                 ELSE IF change_percent <= 40 * SCALE THEN "moderate"
                 ELSE "difficult"
            ELSE IF change_percent <= 50 * SCALE THEN "comfortable"
                 ELSE IF change_percent <= 100 * SCALE THEN "moderate"
                 ELSE "difficult"
    IN  [current_monthly |-> current, change_amount |-> change,
         new_monthly |-> new_amount, change_percent |-> change_percent,
         feasibility |-> feasibility]

\* feasibility_scores
feasibility_score(feasibility) ==
    CASE feasibility = "comfortable" -> 0
      [] feasibility = "moderate" -> 1
      [] feasibility = "difficult" -> 2
      [] feasibility = "unrealistic" -> 3

\* reallocations: a map from category to the amount moved into it (negative:
\* out of it). The ReallocationResponse, its texts named by their first
\* words, or the error raised.
simulate_reallocation(d, txs, user_id, reallocations) ==
    IF query_model(d, user_id) = {}
    THEN Raised("ValueError", "No behavior model found for user")
    ELSE IF txs = <<>>
    THEN Raised("ValueError", "No transactions found in the specified period")
    ELSE
    LET model == CHOOSE r \in query_model(d, user_id) : TRUE
        baseline_total == sum_amounts(txs)
        stats == model.category_stats
    IN  IF \E category \in DOMAIN reallocations :
               category \notin DOMAIN stats /\ category \notin {"SAVINGS", "OTHER"}
        THEN Raised("ValueError", "Category not found in your spending history")
        ELSE
        LET reallocation_details ==
                [category \in DOMAIN reallocations |->
                    reallocate_category(model, category, reallocations[category])]
            scores ==
                [category \in DOMAIN reallocations |->
                    feasibility_score(reallocation_details[category].feasibility)]
            len == Cardinality(DOMAIN reallocations)
        IN  IF len = 0
            THEN Raised("ZeroDivisionError", "division by zero")
            ELSE
            LET avg_difficulty == (sum_values(scores) * SCALE) \div len
                overall ==
                    IF avg_difficulty <= Hundredths(50) THEN "comfortable"
                    ELSE IF avg_difficulty <= Hundredths(150) THEN "moderately challenging"
                    ELSE IF avg_difficulty <= Hundredths(250) THEN "difficult"
                    ELSE "unrealistic"
                increases == {c \in DOMAIN reallocations :
                                 reallocation_details[c].change_amount > 0}
                decreases == {c \in DOMAIN reallocations :
                                 reallocation_details[c].change_amount < 0}
                difficult_ones ==
                    {c \in DOMAIN reallocations :
                        reallocation_details[c].feasibility
                            \in {"difficult", "unrealistic"}}
            IN  [raised |-> "",
                 baseline_monthly |-> baseline_total,
                 projected_monthly |-> baseline_total,
                 is_balanced |-> TRUE,
                 reallocations |-> reallocation_details,
                 feasibility_assessment |-> overall,
                 warnings |->
                    {c \in difficult_ones :
                        reallocations[c] < 0 \/ c \in ESSENTIAL_CATEGORIES},
                 recommendations |->
                    (IF increases # {} /\ decreases # {} THEN {"moving"} ELSE {})
                    \cup (IF difficult_ones # {} THEN {"adjusting"} ELSE {})
                    \cup (IF model.impulse_score > Hundredths(60)
                          THEN {"impulse"} ELSE {})]

\* random.seed(month_num); random.uniform(-0.05, 0.05): what the generator
\* returns after being seeded with the month's number, in millionths.
uniform_after_seed(month_num) ==
    CASE month_num = 1 -> -36564
      [] month_num = 2 -> 45603
      [] month_num = 3 -> -26204
      [] month_num = 4 -> -26395
      [] month_num = 5 -> 12290
      [] month_num = 6 -> 29334

\* The second random.uniform(-0.05, 0.05) after random.seed(seed), in
\* millionths.
uniform_second(seed) ==
    CASE seed = 1 -> 34743
      [] seed = 2 -> 44783
      [] seed = 3 -> 4423
      [] seed = 4 -> -39683
      [] seed = 5 -> 24179
      [] seed = 6 -> 32195

\* random.uniform(-0.05, 0.05) on the generator as it is: the float drawn.
uniform_drawn(generator) ==
    LET millionths == CASE generator.draws = 0 -> uniform_after_seed(generator.seed)
                        [] generator.draws = 1 -> uniform_second(generator.seed)
    IN  (millionths * SCALE) \div 1000000

\* The float of the month's variation.
variation_of(month_num) == (uniform_after_seed(month_num) * SCALE) \div 1000000

\* The projected amount of one category, variation being what was drawn.
projected_with(cat_stats, category, changes, variation) ==
    LET base_amount == cat_stats.mean
        change_pct == IF category \in DOMAIN changes THEN changes[category] ELSE 0
        adjusted_amount == FMul(base_amount, SCALE + change_pct \div 100)
    IN  FMul(adjusted_amount, SCALE + variation)

\* The projected amount of one category in month month_num; changes maps
\* categories to the percentage change planned for them.
projected_amount(cat_stats, category, changes, month_num) ==
    projected_with(cat_stats, category, changes, variation_of(month_num))

\* month_total of month month_num: the sum of the projected amounts.
month_total_of(stats, changes, month_num) ==
    sum_values([c \in DOMAIN stats |->
                   projected_amount(stats[c], c, changes, month_num)])

\* cumulative_change after month month_num.
RECURSIVE cumulative_change_of(_, _, _, _)
cumulative_change_of(stats, changes, baseline_monthly, month_num) ==
    IF month_num = 0 THEN 0
    ELSE cumulative_change_of(stats, changes, baseline_monthly, month_num - 1)
         + (month_total_of(stats, changes, month_num) - baseline_monthly)

\* The MonthlyProjection of month month_num, its label apart (the label
\* names the calendar month of the call).
monthly_projection(stats, changes, baseline_monthly, month_num) ==
    [month |-> month_num,
     projected_spending |-> round(month_total_of(stats, changes, month_num), 2),
     category_breakdown |->
         [c \in DOMAIN stats |->
             round(projected_amount(stats[c], c, changes, month_num), 2)],
     cumulative_change |->
         round(cumulative_change_of(stats, changes, baseline_monthly, month_num), 2),
     confidence |-> Max(Hundredths(50), SCALE - month_num * Hundredths(3))]

\* sum(float(m.projected_spending) for m in monthly_projections)
RECURSIVE sum_projected(_)
sum_projected(monthly_projections) ==
    IF monthly_projections = <<>> THEN 0
    ELSE Head(monthly_projections).projected_spending
         + sum_projected(Tail(monthly_projections))

\* behavioral_changes: the map of planned percentage changes; None and {}
\* are both the empty map, the code treats them alike. The
\* ProjectionResponse without its texts and chart, or the error raised.
project_future_spending(d, txs, user_id, projection_months, behavioral_changes) ==
    IF query_model(d, user_id) = {}
    THEN Raised("ValueError", "No behavior model found for user")
    ELSE IF txs = <<>>
    THEN Raised("ValueError", "No transactions found in the specified period")
    ELSE
    LET model == CHOOSE r \in query_model(d, user_id) : TRUE
        baseline_monthly == sum_amounts(txs)
        stats == model.category_stats
        changes == behavioral_changes
        monthly_projections ==
            [month_num \in 1..projection_months |->
                monthly_projection(stats, changes, baseline_monthly, month_num)]
        total_projected == sum_projected(monthly_projections)
        total_baseline == baseline_monthly * projection_months
        total_change == total_projected - total_baseline
    IN  IF projection_months = 0
        THEN Raised("ZeroDivisionError", "float division by zero")
        ELSE
        LET annual_impact == (total_change \div projection_months) * 12
            avg_change ==
                IF DOMAIN changes = {} THEN 0
                ELSE sum_values(changes) \div Cardinality(DOMAIN changes)
            trend ==
                IF DOMAIN changes = {} THEN "Stable baseline"
                ELSE IF avg_change < -5 * SCALE THEN "Decreasing"
                ELSE IF avg_change > 5 * SCALE THEN "Increasing"
                ELSE "Stable"
            confidence_level ==
                IF projection_months <= 3 THEN "High"
                ELSE IF projection_months <= 6 THEN "Moderate"
                ELSE IF projection_months <= 12 THEN "Low"
                ELSE "Very Low"
        IN  [raised |-> "",
             baseline_monthly |-> baseline_monthly,
             projection_months |-> projection_months,
             monthly_projections |-> monthly_projections,
             total_projected |-> round(total_projected, 2),
             total_baseline |-> round(total_baseline, 2),
             cumulative_change |-> round(total_change, 2),
             annual_impact |-> round(annual_impact, 2),
             trend_analysis |-> trend,
             confidence_level |-> confidence_level]

\* The generator after a project_future_spending call that ran alone: the
\* last month's seed and one draw, when a month and a category were reached.
rng_after_projection(generator, d, txs, user_id, projection_months) ==
    IF \/ query_model(d, user_id) = {}
       \/ txs = <<>>
       \/ projection_months = 0
    THEN generator
    ELSE LET model == CHOOSE r \in query_model(d, user_id) : TRUE
         IN  IF DOMAIN model.category_stats = {} THEN generator
             ELSE [seed |-> projection_months, draws |-> 1]

\* list(stats.keys()) of a model folded from none with the debits txs: the
\* categories in the order in which they were first folded.
RECURSIVE keys_in_order(_)
keys_in_order(txs) ==
    IF txs = <<>> THEN <<>>
    ELSE LET earlier == keys_in_order(SubSeq(txs, 1, Len(txs) - 1))
             category == txs[Len(txs)].category
         IN  IF \E i \in DOMAIN earlier : earlier[i] = category
             THEN earlier ELSE Append(earlier, category)

\* lst[:n]
slice_to(lst, n) == SubSeq(lst, 1, Min(n, Len(lst)))

insert_overwriting(lst, i, x) ==
    [k \in DOMAIN lst |-> IF k = i + 1 THEN x ELSE lst[k]]

\* lst.insert(i, x)
insert(lst, i, x) ==
    SubSeq(lst, 1, Min(i, Len(lst))) \o <<x>>
        \o SubSeq(lst, Min(i, Len(lst)) + 1, Len(lst))

\* "lst if lst else None", as target_categories.
list_or_none(lst) ==
    IF lst = <<>> THEN NoCategories
    ELSE CategoryList({lst[i] : i \in DOMAIN lst})

\* One scenario configuration, its texts apart.
config(id, target_percent, target_categories) ==
    [id |-> id, target_percent |-> target_percent,
     target_categories |-> target_categories]

\* keys: list(stats.keys()).
generate_reduction_scenarios(num_scenarios, keys, elasticity_map) ==
    LET flexible_categories ==
            SelectSeq(keys,
                      LAMBDA cat : /\ cat \in DISCRETIONARY_CATEGORIES
                                   /\ cat \in DOMAIN elasticity_map
                                   /\ elasticity_map[cat] > Hundredths(50))
        configs ==
            <<config("conservative", 10 * SCALE,
                     list_or_none(slice_to(flexible_categories, 3))),
              config("moderate", 20 * SCALE, NoCategories),
              config("aggressive", 35 * SCALE, NoCategories)>>
        targeted == config("targeted", 25 * SCALE, list_or_none(flexible_categories))
        minimal == config("minimal", 5 * SCALE,
                          list_or_none(slice_to(flexible_categories, 2)))
        chosen ==
            IF num_scenarios = 4 THEN insert(configs, 1, targeted)
            ELSE IF num_scenarios = 5
            THEN insert(insert(configs, 1, minimal), 3, targeted)
            ELSE IF num_scenarios = 2 THEN <<configs[1], configs[3]>>
            ELSE configs
    IN  slice_to(chosen, num_scenarios)

generate_increase_scenarios(num_scenarios, keys, elasticity_map) ==
    LET discretionary ==
            SelectSeq(keys, LAMBDA cat : cat \in DISCRETIONARY_CATEGORIES)
        configs ==
            <<config("modest", 10 * SCALE, list_or_none(slice_to(discretionary, 2))),
              config("comfortable", 20 * SCALE, NoCategories),
              config("significant", 35 * SCALE, NoCategories)>>
        targeted_luxury ==
            config("targeted_luxury", 30 * SCALE, list_or_none(discretionary))
        minimal == config("minimal", 5 * SCALE,
                          list_or_none(slice_to(discretionary, 1)))
        chosen ==
            IF num_scenarios = 4 THEN insert(configs, 2, targeted_luxury)
            ELSE IF num_scenarios = 5
            THEN insert(insert(configs, 1, minimal), 3, targeted_luxury)
            ELSE IF num_scenarios = 2 THEN <<configs[1], configs[3]>>
            ELSE configs
    IN  slice_to(chosen, num_scenarios)

\* difficulty_map
difficulty_value(difficulty) ==
    CASE difficulty = "easy" -> Hundredths(20)
      [] difficulty = "moderate" -> Hundredths(50)
      [] difficulty = "challenging" -> Hundredths(80)

calculate_difficulty_score(category_breakdown, achievable_percent, target_percent) ==
    IF DOMAIN category_breakdown = {} THEN Hundredths(50)
    ELSE
    LET len == Cardinality(DOMAIN category_breakdown)
        achievement_ratio ==
            IF target_percent > 0 THEN FDiv(achievable_percent, target_percent)
            ELSE SCALE
        gap_penalty == SCALE - achievement_ratio
        avg_difficulty ==
            sum_values([c \in DOMAIN category_breakdown |->
                           difficulty_value(category_breakdown[c].difficulty)])
                \div len
        avg_confidence ==
            sum_values([c \in DOMAIN category_breakdown |->
                           category_breakdown[c].confidence]) \div len
        confidence_penalty == SCALE - avg_confidence
        difficulty == FMul(gap_penalty, Hundredths(40))
                      + FMul(avg_difficulty, Hundredths(40))
                      + FMul(confidence_penalty, Hundredths(20))
    IN  Min(SCALE, Max(0, difficulty))

\* feasibility_scores of _select_recommended_scenario
feasibility_value(feasibility) ==
    CASE feasibility = "highly_achievable" -> SCALE
      [] feasibility = "achievable" -> Hundredths(80)
      [] feasibility = "challenging" -> Hundredths(50)
      [] feasibility = "unrealistic" -> Hundredths(20)

\* The score _select_recommended_scenario gives one scenario.
scenario_score(scenario, scenario_type) ==
    LET achievement_ratio ==
            FDiv(scenario.achievable_percent, scenario.target_percent)
        in_band ==
            IF scenario_type = "reduction"
            THEN /\ 15 * SCALE <= scenario.achievable_percent
                 /\ scenario.achievable_percent <= 25 * SCALE
            ELSE /\ 10 * SCALE <= scenario.achievable_percent
                 /\ scenario.achievable_percent <= 20 * SCALE
    IN  feasibility_value(scenario.feasibility)
        + FMul(achievement_ratio, Hundredths(30))
        - FMul(scenario.difficulty_score, Hundredths(20))
        + (IF in_band THEN Hundredths(20) ELSE 0)

\* max(scored, key=...)[0]: the id of the first scenario of the highest
\* score. An empty list makes max raise ValueError.
select_recommended_scenario(scenarios, scenario_type) ==
    LET best == CHOOSE i \in DOMAIN scenarios :
                    /\ \A j \in DOMAIN scenarios :
                           scenario_score(scenarios[j], scenario_type)
                               <= scenario_score(scenarios[i], scenario_type)
                    /\ \A j \in 1..(i - 1) :
                           scenario_score(scenarios[j], scenario_type)
                               < scenario_score(scenarios[i], scenario_type)
    IN  scenarios[best].scenario_id

\* The ScenarioSummary of one configuration: the simulation is run for it.
scenario_summary(d, txs, user_id, scenario_type, cfg) ==
    LET result == simulate_spending_scenario(d, txs, user_id, scenario_type,
                                             cfg.target_percent,
                                             cfg.target_categories)
    IN  [scenario_id |-> cfg.id,
         scenario_type |-> scenario_type,
         target_percent |-> result.target_percent,
         achievable_percent |-> result.achievable_percent,
         baseline_monthly |-> result.baseline_monthly,
         projected_monthly |-> result.projected_monthly,
         total_change |-> result.total_change,
         annual_impact |-> result.annual_impact,
         feasibility |-> result.feasibility,
         difficulty_score |->
             calculate_difficulty_score(result.category_breakdown,
                                        result.achievable_percent,
                                        result.target_percent)]

\* keys: list(stats.keys()) of the user's model. The
\* ScenarioComparisonResponse without its chart and texts, or the error
\* raised.
compare_scenarios(d, txs, keys, user_id, scenario_type, num_scenarios) ==
    IF query_model(d, user_id) = {}
    THEN Raised("ValueError", "No behavior model found for user")
    ELSE IF txs = <<>>
    THEN Raised("ValueError", "No transactions found in the specified period")
    ELSE
    LET model == CHOOSE r \in query_model(d, user_id) : TRUE
        baseline_total == sum_amounts(txs)
        scenario_configs ==
            IF scenario_type = "reduction"
            THEN generate_reduction_scenarios(num_scenarios, keys, model.elasticity)
            ELSE generate_increase_scenarios(num_scenarios, keys, model.elasticity)
        scenarios ==
            [i \in DOMAIN scenario_configs |->
                scenario_summary(d, txs, user_id, scenario_type, scenario_configs[i])]
    IN  [raised |-> "",
         scenario_type |-> scenario_type,
         baseline_monthly |-> baseline_total,
         scenarios |-> scenarios,
         recommended_scenario_id |->
             select_recommended_scenario(scenarios, scenario_type)]

\* ------------------------------------------- the simulations of one user
Debit(category, amount) ==
    [type |-> "debit", category |-> category, amount |-> amount,
     merchant |-> "", rawMessage |-> "", timestamp |-> NoTimestamp]

\* The categorized debits the pipeline stores and folds in SpecSim.
SimTransactions ==
    {Debit("DINING", 50 * SCALE), Debit("DINING", 10 * SCALE),
     Debit("ENTERTAINMENT", 10 * SCALE), Debit("GROCERIES", 10 * SCALE)}

\* A user whose only transactions are ten debits of 50 in DINING.
ExampleHistory == [i \in 1..10 |-> Debit("DINING", 50 * SCALE)]

\* A user whose only transactions are two debits of 1 and one of 30 in
\* SHOPPING: a category whose variance exceeds the square of its mean.
SkewedHistory ==
    <<Debit("SHOPPING", 1 * SCALE), Debit("SHOPPING", 1 * SCALE),
      Debit("SHOPPING", 30 * SCALE)>>

IsPrefix(s, t) == Len(s) <= Len(t) /\ SubSeq(t, 1, Len(s)) = s

\* The debits of the last time_period_days that a query can find: the most
\* recent k of the debits stored, for any k.
Windows ==
    {SubSeq(folded, Len(folded) - k + 1, Len(folded)) : k \in 0..Len(folded)}

ScenarioTypes == {"reduction", "increase"}

TargetPercents == {20 * SCALE, 30 * SCALE, 125 * SCALE, 150 * SCALE}

TargetCategoryLists ==
    {NoCategories, CategoryList({}), CategoryList({"DINING"}),
     CategoryList({"RENT"}), CategoryList({"DINING", "RENT"})}

\* The pipeline stores a categorized debit, folds it with update_model and
\* commits: histories of up to MaxSimFolds debits, the example history and
\* the skewed history.
Ingest(transaction) ==
    /\ \/ Len(folded) < MaxSimFolds /\ transaction \in SimTransactions
       \/ IsPrefix(Append(folded, transaction), ExampleHistory)
       \/ IsPrefix(Append(folded, transaction), SkewedHistory)
    /\ LET r == update_model(db, llm_cache, USER, transaction, NoResponse, clock + 1)
       IN  /\ db' = r.db
           /\ llm_cache' = r.cache
           /\ tx_category' = r.category
           /\ outcome' = r.outcome
           /\ llm_status' = r.status
           /\ categorizer_calls' = categorizer_calls + r.categorized
           /\ folded' = Append(folded, [transaction EXCEPT !.category = r.category])
    /\ clock' = clock + 1
    /\ tx' = transaction
    /\ sim' = NoCall
    /\ UNCHANGED <<conc_vars, welford_vars, proj_vars>>

\* A simulation writes nothing that a later call reads, so one call is
\* followed from each state of the model.
SimulateSpendingScenario(txs, scenario_type, target_percent, target_categories) ==
    /\ sim = NoCall
    /\ sim' = [op |-> "simulate_spending_scenario",
               txs |-> txs,
               scenario_type |-> scenario_type,
               target_percent |-> target_percent,
               target_categories |-> target_categories,
               result |-> simulate_spending_scenario(db, txs, USER, scenario_type,
                                                     target_percent,
                                                     target_categories)]
    /\ UNCHANGED <<engine_vars, conc_vars, welford_vars, proj_vars>>

\* Amounts moved between categories: nothing, 30 from DINING to SAVINGS, 30
\* out of DINING alone, 3 from DINING to GROCERIES, 5 out of RENT.
ReallocationMaps ==
    {EmptyMap,
     Put(Put(EmptyMap, "DINING", -30 * SCALE), "SAVINGS", 30 * SCALE),
     Put(EmptyMap, "DINING", -30 * SCALE),
     Put(Put(EmptyMap, "DINING", -3 * SCALE), "GROCERIES", 3 * SCALE),
     Put(EmptyMap, "RENT", -5 * SCALE)}

reallocation_committed(txs, reallocations) ==
    /\ sim = NoCall
    /\ sim' = [op |-> "simulate_reallocation",
               txs |-> txs,
               reallocations |-> reallocations,
               result |-> simulate_reallocation(db, txs, USER, reallocations)]
    /\ db' = {[m EXCEPT !.transaction_count = @ + 1] : m \in db}
    /\ UNCHANGED <<llm_cache, clock, tx, tx_category, outcome, llm_status,
                   categorizer_calls, folded, conc_vars, welford_vars, proj_vars>>

SimulateReallocation(txs, reallocations) ==
    /\ sim = NoCall
    /\ sim' = [op |-> "simulate_reallocation",
               txs |-> txs,
               reallocations |-> reallocations,
               result |-> simulate_reallocation(db, txs, USER, reallocations)]
    /\ UNCHANGED <<engine_vars, conc_vars, welford_vars, proj_vars>>

ProjectionMonths == {0, 1, 3}

\* Planned changes in percent: none, DINING down by 20, DINING down by 10
\* with GROCERIES up by 10.
BehavioralChanges ==
    {EmptyMap,
     Put(EmptyMap, "DINING", -20 * SCALE),
     Put(Put(EmptyMap, "DINING", -10 * SCALE), "GROCERIES", 10 * SCALE)}

ProjectFutureSpending(txs, projection_months, behavioral_changes) ==
    /\ sim = NoCall
    /\ sim' = [op |-> "project_future_spending",
               txs |-> txs,
               projection_months |-> projection_months,
               behavioral_changes |-> behavioral_changes,
               result |-> project_future_spending(db, txs, USER, projection_months,
                                                  behavioral_changes)]
    /\ rng' = rng_after_projection(rng, db, txs, USER, projection_months)
    /\ UNCHANGED <<engine_vars, conc_vars, welford_vars, proj>>

NumScenarios == 2..5

CompareScenarios(txs, scenario_type, num_scenarios) ==
    /\ sim = NoCall
    /\ sim' = [op |-> "compare_scenarios",
               txs |-> txs,
               scenario_type |-> scenario_type,
               num_scenarios |-> num_scenarios,
               result |-> compare_scenarios(db, txs, keys_in_order(folded), USER,
                                            scenario_type, num_scenarios)]
    /\ UNCHANGED <<engine_vars, conc_vars, welford_vars, proj_vars>>

NextSim ==
    \/ \E transaction \in SimTransactions \cup {SkewedHistory[i] : i \in 1..3} :
            Ingest(transaction)
    \/ \E txs \in Windows, projection_months \in ProjectionMonths,
          behavioral_changes \in BehavioralChanges :
            ProjectFutureSpending(txs, projection_months, behavioral_changes)
    \/ \E txs \in Windows, scenario_type \in ScenarioTypes,
          num_scenarios \in NumScenarios :
            CompareScenarios(txs, scenario_type, num_scenarios)
    \/ \E txs \in Windows, scenario_type \in ScenarioTypes,
          target_percent \in TargetPercents,
          target_categories \in TargetCategoryLists :
            SimulateSpendingScenario(txs, scenario_type, target_percent,
                                     target_categories)
    \/ \E txs \in Windows, reallocations \in ReallocationMaps :
            SimulateReallocation(txs, reallocations)

SpecSim == Init /\ [][NextSim]_vars

\* ------------------------------- project_future_spending, calls in threads
\* Months projected by the calls of SpecProj.
ConcurrentMonths == {1, 2}

\* Planned changes of the calls of SpecProj: none, DINING down by 20%.
ConcurrentChanges == {EmptyMap, Put(EmptyMap, "DINING", -20 * SCALE)}

\* The debits folded in SpecProj.
ConcurrentTransactions == {Debit("DINING", 50 * SCALE), Debit("GROCERIES", 10 * SCALE)}

\* The call enters the loop: the user has a model and debits in the window
\* (all the debits stored).
BeginProjection(p, projection_months, behavioral_changes) ==
    /\ proj[p].at = "idle"
    /\ db # {}
    /\ folded # <<>>
    /\ proj' = [proj EXCEPT ![p] =
                   [at |-> "seed",
                    projection_months |-> projection_months,
                    changes |-> behavioral_changes,
                    month_num |-> 1,
                    todo |-> keys_in_order(folded),
                    amounts |-> EmptyMap]]
    /\ UNCHANGED <<engine_vars, conc_vars, welford_vars, sim_vars, rng>>

\* random.seed(month_num)
SeedStep(p) ==
    /\ proj[p].at = "seed"
    /\ rng' = [seed |-> proj[p].month_num, draws |-> 0]
    /\ proj' = [proj EXCEPT ![p].at = "draw"]
    /\ UNCHANGED <<engine_vars, conc_vars, welford_vars, sim_vars>>

\* variation = random.uniform(-0.05, 0.05) and the rest of the loop's body
\* for the category; then the next category, the next month, or the end.
DrawStep(p) ==
    /\ proj[p].at = "draw"
    /\ LET call == proj[p]
           category == Head(call.todo)
           model == CHOOSE r \in query_model(db, USER) : TRUE
           amount == round(projected_with(model.category_stats[category],
                                          category, call.changes,
                                          uniform_drawn(rng)), 2)
           amounts == Put(call.amounts, <<call.month_num, category>>, amount)
       IN  proj' = [proj EXCEPT ![p] =
                       IF Tail(call.todo) # <<>>
                       THEN [call EXCEPT !.at = "seed", !.todo = Tail(call.todo),
                                         !.amounts = amounts]
                       ELSE IF call.month_num < call.projection_months
                       THEN [call EXCEPT !.at = "seed",
                                         !.month_num = call.month_num + 1,
                                         !.todo = keys_in_order(folded),
                                         !.amounts = amounts]
                       ELSE [call EXCEPT !.at = "done", !.todo = <<>>,
                                         !.amounts = amounts]]
    /\ rng' = [rng EXCEPT !.draws = @ + 1]
    /\ UNCHANGED <<engine_vars, conc_vars, welford_vars, sim_vars>>

\* The call returns its ProjectionResponse.
ReturnProjection(p) ==
    /\ proj[p].at = "done"
    /\ proj' = [proj EXCEPT ![p] = NoProjection]
    /\ UNCHANGED <<engine_vars, conc_vars, welford_vars, sim_vars, rng>>

\* Debits are folded before the first projection; projection calls run in
\* threads, one statement at a time.
NextProj ==
    \/ /\ rng = Unseeded
       /\ \A p \in Projectors : proj[p].at = "idle"
       /\ Len(folded) < MaxSimFolds
       /\ \E transaction \in ConcurrentTransactions : Ingest(transaction)
    \/ \E p \in Projectors, projection_months \in ConcurrentMonths,
          behavioral_changes \in ConcurrentChanges :
            BeginProjection(p, projection_months, behavioral_changes)
    \/ \E p \in Projectors : SeedStep(p)
    \/ \E p \in Projectors : DrawStep(p)
    \/ \E p \in Projectors : ReturnProjection(p)

SpecProj == Init /\ [][NextProj]_vars

\* ================================================================= claims
\* The user's row in table d; the row a first call would create when there is
\* none yet.
RowOf(d) ==
    IF query_model(d, USER) = {} THEN BehaviourModel(USER, 0)
    ELSE CHOOSE r \in query_model(d, USER) : TRUE

\* This step folded a debit transaction into the model.
FoldStep == Len(folded') = Len(folded) + 1

\* mean - 1.5 * std_dev, floored at 0: the baseline the record st proposes.
ProposedBaseline(st) == Max(0, st.mean - FMul(Hundredths(150), st.std_dev))

\* C1: every update_model step leaves each stored baseline at or below its
\* value before the step and at or above 0, and the folded category's
\* baseline is min(old, max(0, mean - 1.5 * std_dev)) (the proposal itself
\* when the category had none).
C1_BaselineNonIncreasing ==
    [][LET old == RowOf(db)
           new == RowOf(db')
       IN  /\ \A c \in DOMAIN old.baselines :
                  /\ c \in DOMAIN new.baselines
                  /\ new.baselines[c] <= old.baselines[c]
           /\ \A c \in DOMAIN new.baselines : new.baselines[c] >= 0
           /\ FoldStep =>
                  LET c == tx_category'
                      proposed == ProposedBaseline(new.category_stats[c])
                  IN  new.baselines[c] =
                          IF c \in DOMAIN old.baselines
                          THEN Min(old.baselines[c], proposed) ELSE proposed
      ]_vars

\* A category was updated again and kept its earlier, lower baseline: the
\* updated record proposes more than what is stored.
C1_Witness ==
    \E c \in DOMAIN RowOf(db).baselines :
        /\ RowOf(db).category_stats[c].count >= 2
        /\ tx_category = c
        /\ tx.type = "debit"
        /\ RowOf(db).baselines[c] < ProposedBaseline(RowOf(db).category_stats[c])

\* C2: a step that folds a debit sets impulse_score to
\* 0.9 * prior + 0.1 * flag, flag the detect_impulse value of the transaction
\* against the updated statistics, and impulse_score stays within [0, 1].
C2_ImpulseScoreEMA ==
    [][LET old == RowOf(db)
           new == RowOf(db')
       IN  /\ new.impulse_score >= 0
           /\ new.impulse_score <= SCALE
           /\ FoldStep =>
                  LET flag == detect_impulse(folded'[Len(folded')], new.category_stats)
                  IN  /\ flag >= 0
                      /\ flag <= SCALE
                      /\ new.impulse_score =
                            FMul(Hundredths(90), old.impulse_score)
                            + FMul(Hundredths(10), flag)
      ]_vars

\* Two debits were folded and the score is above 0.
C2_Witness == Len(folded) >= 2 /\ RowOf(db).impulse_score > 0

\* C3: every category record with count >= 1 has min <= mean <= max.
C3_MinMeanMax ==
    \A c \in DOMAIN RowOf(db).category_stats :
        LET st == RowOf(db).category_stats[c]
        IN  st.count >= 1 => st.min <= st.mean /\ st.mean <= st.max

\* C4: every stored category record has variance = m2 / count when
\* count > 1 and variance = 0 when count <= 1.
C4_VarianceIsM2OverCount ==
    \A c \in DOMAIN RowOf(db).category_stats :
        LET st == RowOf(db).category_stats[c]
        IN  st.variance = IF st.count > 1 THEN st.m2 \div st.count ELSE 0

\* A record that was decayed and updated, with a variance above 0.
C4_Witness ==
    \E c \in DOMAIN RowOf(db).category_stats :
        LET st == RowOf(db).category_stats[c]
        IN  st.count >= 2 /\ st.variance > 0 /\ st.m2 > st.variance

\* C6: a call with a transaction that is no debit, for a user who has a
\* model, leaves the row as it was (every field), calls no categorizer and
\* leaves the transaction's category as it was passed.
C6_CreditLeavesModel ==
    [][(clock' = clock + 1 /\ tx'.type # "debit" /\ db # {}) =>
          /\ db' = db
          /\ categorizer_calls' = categorizer_calls
          /\ llm_cache' = llm_cache
          /\ llm_status' = "not_called"
          /\ tx_category' = tx'.category
          /\ folded' = folded
          /\ outcome' = "returned"
      ]_vars

\* A credit without a category was passed for a user whose model holds
\* folded debits.
C6_Witness ==
    /\ tx.type = "credit"
    /\ tx.category = ""
    /\ tx_category = ""
    /\ RowOf(db).transaction_count >= 1
    /\ RowOf(db).last_updated < clock

\* C7, as stated: the table holds a row for the user only after a debit was
\* processed.
C7_RowOnlyAfterDebit == db # {} => Len(folded) >= 1

\* C7, amended: the row is created by the user's first update_model call,
\* debit or credit, one row per user; until a debit is folded it is the
\* empty model (all maps empty, impulse_score 0, transaction_count 0).
C7_RowFromFirstCall ==
    /\ (db # {}) <=> (clock >= 1)
    /\ Cardinality(db) <= 1
    /\ (db # {} /\ folded = <<>>) =>
          LET m == RowOf(db)
          IN  /\ m.category_stats = EmptyMap
              /\ m.elasticity = EmptyMap
              /\ m.baselines = EmptyMap
              /\ m.habits = EmptyMap
              /\ m.impulse_score = 0
              /\ m.transaction_count = 0

\* Only credits were processed and the user has a row.
C7_Witness == db # {} /\ folded = <<>> /\ tx.type = "credit" /\ clock >= 2

\* C8: a call in which the classifier failed returns normally, the
\* transaction gets the category OTHER, and the transaction is folded into
\* OTHER: its count and transaction_count rise by one and its elasticity and
\* baseline are set.
C8_CategorizerFailureRecovered ==
    [][(clock' = clock + 1 /\ llm_status' = "failed") =>
          LET old == RowOf(db)
              new == RowOf(db')
              before == IF "OTHER" \in DOMAIN old.category_stats
                        THEN old.category_stats["OTHER"].count ELSE 0
          IN  /\ outcome' = "returned"
              /\ tx_category' = "OTHER"
              /\ FoldStep
              /\ folded'[Len(folded')].category = "OTHER"
              /\ "OTHER" \in DOMAIN new.category_stats
              /\ new.category_stats["OTHER"].count = before + 1
              /\ new.category_stats["OTHER"].sum >= tx'.amount
              /\ "OTHER" \in DOMAIN new.elasticity
              /\ "OTHER" \in DOMAIN new.baselines
              /\ new.transaction_count = old.transaction_count + 1
              /\ new.last_updated = clock'
      ]_vars

\* The classifier failed on an uncategorized debit, after an earlier failure
\* had already been folded into OTHER.
C8_Witness ==
    /\ llm_status = "failed"
    /\ tx.category = ""
    /\ tx_category = "OTHER"
    /\ "OTHER" \in DOMAIN RowOf(db).category_stats
    /\ RowOf(db).category_stats["OTHER"].count >= 2


RECURSIVE SumSeq(_)
SumSeq(s) == IF s = <<>> THEN 0 ELSE Head(s) + SumSeq(Tail(s))

\* The sum of the squares of amounts that are whole numbers.
RECURSIVE SumSquares(_)
SumSquares(s) ==
    IF s = <<>> THEN 0
    ELSE (Head(s) \div SCALE) * (Head(s) \div SCALE) + SumSquares(Tail(s))

\* The arithmetic mean, and the sum of squared deviations from it, of a
\* sequence of whole amounts, computed from the sums.
BatchMean(s) == SumSeq(s) \div Len(s)

BatchM2(s) ==
    LET n == Len(s)
        total == SumSeq(s) \div SCALE
    IN  ((n * SumSquares(s) - total * total) * SCALE) \div n

LargestAmount == CHOOSE a \in WelfordAmounts : \A b \in WelfordAmounts : b <= a

\* What n roundings can add up to: each of the n divisions of the mean
\* rounds by less than one unit of 1/SCALE, and each of the n products of two
\* deviations, each at most LargestAmount and off by at most n units, by at
\* most 2 * n * LargestAmount / SCALE + 2 units.
MeanTolerance(n) == n

M2Tolerance(n) == n * (2 * n * (LargestAmount \div SCALE) + 2)

\* C5: update_welford_stats applied to a non-empty sequence of amounts, from
\* the zero record, gives count = length, sum = total, mean = the arithmetic
\* mean and m2 = the sum of squared deviations from the mean, up to the
\* rounding of the arithmetic, and variance = m2 / count, the population
\* variance.
C5_WelfordMatchesBatch ==
    wseq # <<>> =>
        LET n == Len(wseq)
        IN  /\ wstats.count = n
            /\ wstats.sum = SumSeq(wseq)
            /\ Abs(wstats.mean - BatchMean(wseq)) <= MeanTolerance(n)
            /\ Abs(wstats.m2 - BatchM2(wseq)) <= M2Tolerance(n)
            /\ wstats.variance = IF n > 1 THEN wstats.m2 \div n ELSE 0
            /\ Abs(wstats.variance - BatchM2(wseq) \div n) <= M2Tolerance(n) \div n + 1

\* Three or more amounts, not all equal, were folded.
C5_Witness == Len(wseq) >= 3 /\ wstats.variance > 0 /\ wstats.min < wstats.max

\* The observations counted in the row's category records.
RECURSIVE SumCounts(_)
SumCounts(stats) ==
    IF DOMAIN stats = {} THEN 0
    ELSE LET c == CHOOSE x \in DOMAIN stats : TRUE
         IN  stats[c].count + SumCounts([x \in DOMAIN stats \ {c} |-> stats[x]])

\* C9: while the user's calls never overlap, every folded debit is in the
\* stored row (transaction_count and the category counts equal the number of
\* debits folded); once two calls have held the row at the same time and
\* both have written it back, the stored row lacks at least one of the
\* debits folded.
C9_UnserializedUpdateIsLost ==
    LET m == RowOf(db)
    IN  /\ ~overlapped =>
              /\ m.transaction_count = Len(folded)
              /\ SumCounts(m.category_stats) = Len(folded)
        /\ (overlapped /\ \A p \in Requests : pc[p] = "idle") =>
              /\ m.transaction_count < Len(folded)
              /\ SumCounts(m.category_stats) < Len(folded)

\* Two debits of one category were folded by overlapping calls and the row
\* counts one.
C9_Witness ==
    /\ overlapped
    /\ \A p \in Requests : pc[p] = "idle"
    /\ Len(folded) = 2
    /\ folded[1].category = folded[2].category
    /\ RowOf(db).transaction_count = 1
    /\ RowOf(db).category_stats[folded[1].category].count = 1

\* The row that folding the debits of s, in order, into a new row gives.
RECURSIVE FoldAll(_)
FoldAll(s) ==
    IF s = <<>> THEN BehaviourModel(USER, 0)
    ELSE fold_transaction(FoldAll(SubSeq(s, 1, Len(s) - 1)), s[Len(s)], 0)

\* s with its last two elements exchanged.
SwapLastTwo(s) ==
    [i \in 1..Len(s) |->
        IF i = Len(s) THEN s[Len(s) - 1]
        ELSE IF i = Len(s) - 1 THEN s[Len(s)]
        ELSE s[i]]

\* C10: the stored row is a function of the sequence of debits folded (all
\* but last_updated), and folding the last two debits in the other order
\* gives another mean for their category whenever they are of one category
\* and of different amounts.
C10_FoldingOrderMatters ==
    /\ [RowOf(db) EXCEPT !.last_updated = 0] = FoldAll(folded)
    /\ (/\ Len(folded) >= 2
        /\ folded[Len(folded)].category = folded[Len(folded) - 1].category
        /\ folded[Len(folded)].amount # folded[Len(folded) - 1].amount) =>
          LET c == folded[Len(folded)].category
          IN  FoldAll(SwapLastTwo(folded)).category_stats[c].mean
                  # RowOf(db).category_stats[c].mean

\* Two debits of one category and of different amounts were folded last, with
\* a credit processed between the calls.
C10_Witness ==
    /\ Len(folded) >= 2
    /\ clock > Len(folded)
    /\ folded[Len(folded)].category = folded[Len(folded) - 1].category
    /\ folded[Len(folded)].amount # folded[Len(folded) - 1].amount

ScenarioReturned == sim.op = "simulate_spending_scenario" /\ sim.result.raised = ""

\* C12: every simulate_spending_scenario result has achievable_percent <=
\* target_percent, and so has every category's achievable percentage in its
\* category_breakdown.
C12_AchievableWithinTarget ==
    ScenarioReturned =>
        /\ sim.result.achievable_percent <= sim.result.target_percent
        /\ \A c \in DOMAIN sim.result.category_breakdown :
               sim.result.category_breakdown[c].achievable_reduction_pct
                   <= sim.result.target_percent

\* The achieved total of a result: the sum of its categories' changes.
AchievedTotal(result) ==
    sum_values([c \in DOMAIN result.category_breakdown |->
                   result.category_breakdown[c].monthly_change])

\* C13: the feasibility label of a simulate_spending_scenario result is
\* decided by achieved_total / baseline_total * 100 against target_percent:
\* highly_achievable from 90% of the target on, achievable from 70% to below
\* 90%, challenging from 50% to below 70%, unrealistic below 50%, each lower
\* boundary belonging to the higher bucket.
C13_FeasibilityBuckets ==
    ScenarioReturned =>
        LET achieved == FDiv(AchievedTotal(sim.result), sum_amounts(sim.txs)) * 100
            target == sim.target_percent
            label == sim.result.feasibility
        IN  /\ sim.result.actual_change_pct = achieved
            /\ (label = "highly_achievable") <=>
                   achieved >= FMul(target, Hundredths(90))
            /\ (label = "achievable") <=>
                   /\ achieved >= FMul(target, Hundredths(70))
                   /\ achieved < FMul(target, Hundredths(90))
            /\ (label = "challenging") <=>
                   /\ achieved >= FMul(target, Hundredths(50))
                   /\ achieved < FMul(target, Hundredths(70))
            /\ (label = "unrealistic") <=>
                   achieved < FMul(target, Hundredths(50))

\* A result whose achieved percentage is exactly 90% of a positive target.
C13_Witness ==
    /\ ScenarioReturned
    /\ sim.target_percent > 0
    /\ sim.result.actual_change_pct = FMul(sim.target_percent, Hundredths(90))
    /\ sim.result.actual_change_pct * 10 = sim.target_percent * 9
    /\ sim.result.feasibility = "highly_achievable"

\* The example history was folded from no model and a 20% reduction was
\* simulated over all of it as the window.
ExampleSimulated ==
    /\ folded = ExampleHistory
    /\ ScenarioReturned
    /\ sim.txs = ExampleHistory
    /\ sim.scenario_type = "reduction"
    /\ sim.target_percent = 20 * SCALE
    /\ sim.target_categories = NoCategories

\* C14: after ten debits of 50 in DINING were folded from no model, DINING
\* has mean 50, std_dev 0 and elasticity 0.70 (each within 0.5, 0.5 and 0.01),
\* and a 20% reduction simulated over these ten debits reports
\* achievable_percent = 20.
C14_TenDiningDebits ==
    ExampleSimulated =>
        LET m == RowOf(db)
        IN  /\ Abs(m.category_stats["DINING"].mean - 50 * SCALE) <= Hundredths(50)
            /\ m.category_stats["DINING"].std_dev <= Hundredths(50)
            /\ Abs(m.elasticity["DINING"] - Hundredths(70)) <= Hundredths(1)
            /\ sim.result.achievable_percent = 20 * SCALE

\* The latest call was simulate_reallocation, for a user with a model and
\* with debits in the window, and every category it names is in the model's
\* category_stats or is SAVINGS or OTHER.
ReallocationCalledValid ==
    /\ sim.op = "simulate_reallocation"
    /\ db # {}
    /\ sim.txs # <<>>
    /\ \A c \in DOMAIN sim.reallocations :
           c \in DOMAIN RowOf(db).category_stats \cup {"SAVINGS", "OTHER"}

\* C15: every such simulate_reallocation call, whatever its map of changes
\* (summing to zero or not, or empty), returns a response whose
\* projected_monthly equals its baseline_monthly, the sum of the window's
\* debit amounts.
C15_ReallocationBalanced ==
    ReallocationCalledValid =>
        /\ sim.result.raised = ""
        /\ sim.result.baseline_monthly = sum_amounts(sim.txs)
        /\ sim.result.projected_monthly = sim.result.baseline_monthly
        /\ sim.result.is_balanced

\* C16: a simulate_reallocation call that moves 30 from DINING to SAVINGS,
\* on a model that has DINING with 30 <= elasticity * 100, reports the DINING
\* cut as comfortable or moderate.
C16_DiningCutFeasible ==
    (/\ ReallocationCalledValid
     /\ sim.reallocations =
            Put(Put(EmptyMap, "DINING", -30 * SCALE), "SAVINGS", 30 * SCALE)
     /\ "DINING" \in DOMAIN RowOf(db).category_stats
     /\ 30 * SCALE <= RowOf(db).elasticity["DINING"] * 100) =>
        /\ sim.result.raised = ""
        /\ sim.result.reallocations["DINING"].feasibility
               \in {"comfortable", "moderate"}


\* The latest call was simulate_spending_scenario.
ScenarioCalled == sim.op = "simulate_spending_scenario"

\* The categories of the list given to the latest call that the model has.
RequestedAndKnown ==
    sim.target_categories.names \cap DOMAIN RowOf(db).category_stats

\* A non-empty list was given and the model has none of its categories.
NoneRequestedKnown ==
    /\ ~sim.target_categories.omitted
    /\ sim.target_categories.names # {}
    /\ RequestedAndKnown = {}

\* C17 as stated: a simulate_spending_scenario call for a user who has a
\* model fails exactly when a non-empty category list is given and the model
\* has none of its categories.
C17_FailsExactlyOnUnknownList ==
    (ScenarioCalled /\ db # {}) =>
        ((sim.result.raised # "") <=> NoneRequestedKnown)

\* C17: for a user who has a model and debits in the window,
\* simulate_spending_scenario fails exactly when a non-empty category list
\* is given and the model has none of its categories; otherwise it analyses
\* the listed categories that the model has, or all the model's categories
\* when the list is omitted or empty. Without a model or with an empty
\* window it fails whatever the list.
C17_CategorySelection ==
    ScenarioCalled =>
        IF db = {} \/ sim.txs = <<>>
        THEN sim.result.raised = "ValueError"
        ELSE /\ (sim.result.raised # "") <=> NoneRequestedKnown
             /\ NoneRequestedKnown => sim.result.raised = "ValueError"
             /\ sim.result.raised = "" =>
                    DOMAIN sim.result.category_breakdown =
                        IF sim.target_categories.omitted
                           \/ sim.target_categories.names = {}
                        THEN DOMAIN RowOf(db).category_stats
                        ELSE RequestedAndKnown

\* A call listing DINING and RENT on a model that has DINING and GROCERIES
\* but not RENT: it returned an analysis of DINING alone.
C17_Witness ==
    /\ ScenarioCalled
    /\ sim.txs # <<>>
    /\ sim.target_categories = CategoryList({"DINING", "RENT"})
    /\ DOMAIN RowOf(db).category_stats = {"DINING", "GROCERIES"}
    /\ sim.result.raised = ""
    /\ DOMAIN sim.result.category_breakdown = {"DINING"}

\* A call listing only RENT, on a model without RENT, raised.
C17_WitnessRaised ==
    /\ ScenarioCalled
    /\ db # {}
    /\ sim.txs # <<>>
    /\ sim.target_categories = CategoryList({"RENT"})
    /\ sim.result.raised = "ValueError"


\* C18: no call of simulate_spending_scenario, simulate_reallocation,
\* project_future_spending or compare_scenarios raises a division error; a
\* zero denominator gives a result computed with a neutral default.
C18_NoDivisionError ==
    sim.op # "none" => sim.result.raised # "ZeroDivisionError"

\* The latest call was compare_scenarios, with num_scenarios from 2 to 5,
\* for a user with a model and with debits in the window.
ComparisonCalled ==
    /\ sim.op = "compare_scenarios"
    /\ sim.num_scenarios \in 2..5
    /\ db # {}
    /\ sim.txs # <<>>

\* C19: every such compare_scenarios call, of either scenario type, returns
\* exactly num_scenarios scenarios of pairwise distinct scenario_id, and
\* its recommended_scenario_id is the id of one of them.
C19_ComparisonCounts ==
    ComparisonCalled =>
        /\ sim.result.raised = ""
        /\ LET scenarios == sim.result.scenarios
           IN  /\ Len(scenarios) = sim.num_scenarios
               /\ \A i, j \in DOMAIN scenarios :
                      scenarios[i].scenario_id = scenarios[j].scenario_id => i = j
               /\ \E i \in DOMAIN scenarios :
                      scenarios[i].scenario_id = sim.result.recommended_scenario_id

\* Five reduction scenarios were compared and one of the two inserted
\* configurations is the recommended one.
C19_Witness ==
    /\ ComparisonCalled
    /\ sim.num_scenarios = 5
    /\ sim.scenario_type = "reduction"
    /\ Len(sim.result.scenarios) = 5
    /\ sim.result.recommended_scenario_id \in {"minimal", "targeted"}


\* C20: a call of simulate_spending_scenario, simulate_reallocation,
\* project_future_spending or compare_scenarios, returning or raising,
\* leaves the behaviour_models table (every field of every row) and the
\* stored transactions as they were before the call.
C20_SimulationsReadOnly ==
    [][sim'.op # "none" => (db' = db /\ folded' = folded)]_vars

\* Three months were projected for a user whose model has folded two debits,
\* and the model still counts two transactions.
C20_Witness ==
    /\ sim.op = "project_future_spending"
    /\ sim.result.raised = ""
    /\ sim.projection_months = 3
    /\ Len(folded) = 2
    /\ RowOf(db).transaction_count = 2


\* The per-month, per-category amounts project_future_spending returns for
\* the arguments of call when it runs alone.
AmountsAlone(call) ==
    LET result == project_future_spending(db, folded, USER, call.projection_months,
                                          call.changes)
    IN  [k \in DOMAIN call.amounts |->
            result.monthly_projections[k[1]].category_breakdown[k[2]]]

\* C21: a project_future_spending call returns, for the same model, window,
\* months and behavioral_changes, the same per-month, per-category amounts
\* whether it runs alone or interleaved with other projection calls.
C21_ProjectionReproducible ==
    \A p \in Projectors :
        proj[p].at = "done" => proj[p].amounts = AmountsAlone(proj[p])


\* The latest StatisticsService call was calculate_elasticity.
ElasticityCalled == calc.op = "calculate_elasticity"

\* C22: calculate_elasticity returns a value in [0, 1] for every category,
\* configured or not, and every stats record of mean >= 0 and variance >= 0,
\* mean = 0 included.
C22_ElasticityInUnitInterval ==
    ElasticityCalled => (0 <= calc.result /\ calc.result <= SCALE)

\* TRAVEL with mean 10 and variance 400: the volatility bonus is 0.25 and
\* the sum 1.05 is cut to 1.
C22_Witness ==
    /\ ElasticityCalled
    /\ calc.category = "TRAVEL"
    /\ calc.stats.mean = 10 * SCALE
    /\ calc.stats.variance = 400 * SCALE
    /\ calc.result = SCALE

\* A record of mean 0 and positive variance: no bonus, the result is the
\* base value of the category.
C22_WitnessMeanZero ==
    /\ ElasticityCalled
    /\ calc.category = "CRYPTO"
    /\ calc.stats.mean = 0
    /\ calc.stats.variance > 0
    /\ calc.result = Hundredths(40)

\* C23: calculate_elasticity returns a value strictly below 1 for every
\* configured category and every stats record, and elasticity[c] < 1 for
\* every category of the model in every reachable state.
C23_NeverPerfectlyElastic ==
    /\ (ElasticityCalled /\ calc.category \in ALL_CATEGORIES) => calc.result < SCALE
    /\ \A c \in DOMAIN RowOf(db).elasticity : RowOf(db).elasticity[c] < SCALE


\* The latest StatisticsService call was detect_impulse.
ImpulseCalled == calc.op = "detect_impulse"

\* C24: detect_impulse returns a value in [0, 1] for every transaction (any
\* positive amount, any category or none, with or without a timestamp) and
\* every per-category stats map, the category absent from the map or its
\* record of mean 0 or std_dev 0 included.
C24_ImpulseInUnitInterval ==
    ImpulseCalled => (0 <= calc.result /\ calc.result <= SCALE)

\* A DINING debit of 100 on a Saturday at 23:00 against a DINING record of
\* mean 10 and std_dev 5: the product 1 * 1.5 * 1.3 * 1.2 is cut to 1.
C24_Witness ==
    /\ ImpulseCalled
    /\ calc.transaction.category = "DINING"
    /\ calc.transaction.amount = 100 * SCALE
    /\ calc.transaction.timestamp = [present |-> TRUE, hour |-> 23, weekday |-> 5]
    /\ "DINING" \in DOMAIN calc.user_stats
    /\ calc.user_stats["DINING"].mean = 10 * SCALE
    /\ calc.user_stats["DINING"].variance = 25 * SCALE
    /\ calc.result = SCALE

\* A debit without category and timestamp against the empty map: 0.3.
C24_WitnessAbsent ==
    /\ ImpulseCalled
    /\ calc.transaction.category = ""
    /\ ~calc.transaction.timestamp.present
    /\ calc.user_stats = EmptyMap
    /\ calc.result = Hundredths(30)

\* A debit against a record of positive mean and std_dev 0: 0.3 as well.
C24_WitnessNoDeviation ==
    /\ ImpulseCalled
    /\ calc.transaction.category = "GROCERIES"
    /\ ~calc.transaction.timestamp.present
    /\ "GROCERIES" \in DOMAIN calc.user_stats
    /\ calc.user_stats["GROCERIES"].mean > 0
    /\ calc.user_stats["GROCERIES"].std_dev = 0
    /\ calc.result = Hundredths(30)


\* The latest StatisticsService call was apply_time_decay.
DecayCalled == calc.op = "apply_time_decay"

\* C25: apply_time_decay returns a record of count 0 unchanged; for a count
\* above 0 it multiplies mean, variance and m2 by the factor and leaves
\* count, sum, min and max as they are, so the count after any number of
\* decays with no observation in between is the count before the first.
C25_DecayScalesMoments ==
    DecayCalled =>
        LET stats == calc.stats
            result == calc.result
            factor == calc.decay_factor
        IN  /\ stats.count = 0 => result = stats
            /\ stats.count > 0 =>
                   /\ result.mean = FMul(stats.mean, factor)
                   /\ result.variance = FMul(stats.variance, factor)
                   /\ result.m2 = FMul(stats.m2, factor)
            /\ result.count = stats.count
            /\ result.sum = stats.sum
            /\ result.min = stats.min
            /\ result.max = stats.max
            /\ result.count = calc.first.count

\* A record of count 5, mean 50 and variance 400 was decayed MaxDecays
\* times: the count is 5 still, mean and variance are lower.
C25_Witness ==
    /\ DecayCalled
    /\ calc.decays = MaxDecays
    /\ calc.first.count = 5
    /\ calc.first.mean = 50 * SCALE
    /\ calc.first.variance = 400 * SCALE
    /\ calc.result.count = 5
    /\ calc.result.mean < calc.stats.mean
    /\ calc.result.variance < calc.stats.variance

\* A record of count 0 and mean 10 came back as it was.
C25_WitnessZeroCount ==
    /\ DecayCalled
    /\ calc.stats.count = 0
    /\ calc.stats.mean = 10 * SCALE
    /\ calc.result = calc.stats


\* The latest update_model call called categorize and categorize returned.
CategorizeReturned == llm_status # "not_called" /\ outcome = "returned"

\* C26: every label categorize returns is in ALL_CATEGORIES, whether it
\* comes from a keyword, from the cache, from a fresh answer of the
\* classifier (a label outside the set becomes OTHER) or from a failed call
\* (OTHER); so is every label the cache holds.
C26_LabelsInFixedSet ==
    /\ CategorizeReturned =>
           /\ llm_status \in {"rule", "cached", "ok", "failed"}
           /\ tx_category \in ALL_CATEGORIES
    /\ \A cache_key \in DOMAIN llm_cache :
           llm_cache[cache_key].category \in ALL_CATEGORIES

\* The classifier answered with a label outside the set, and the call
\* returned and cached OTHER.
C26_Witness ==
    /\ CategorizeReturned
    /\ llm_status = "ok"
    /\ tx.category = ""
    /\ tx_category = "OTHER"
    /\ \E cache_key \in DOMAIN llm_cache : llm_cache[cache_key].category = "OTHER"

\* A label was returned on each of the other paths.
C26_WitnessRule == CategorizeReturned /\ llm_status = "rule" /\ tx_category = "DINING"

C26_WitnessCached == CategorizeReturned /\ llm_status = "cached"

C26_WitnessFailed ==
    CategorizeReturned /\ llm_status = "failed" /\ tx_category = "OTHER"


\* C27: an update_model call that folds a debit of category c leaves
\* category_stats, elasticity and baselines of every other category as they
\* were (no decay, no new entry but c's), and leaves monthly_patterns and
\* user_id as they were; c's entries, impulse_score, habits,
\* transaction_count and last_updated are what may change.
C27_OtherCategoriesUntouched ==
    [][FoldStep =>
          LET old == RowOf(db)
              new == RowOf(db')
              c == tx_category'
              Kept(before, after) ==
                  /\ DOMAIN after = DOMAIN before \cup {c}
                  /\ \A other \in DOMAIN before \ {c} : after[other] = before[other]
          IN  /\ Kept(old.category_stats, new.category_stats)
              /\ Kept(old.elasticity, new.elasticity)
              /\ Kept(old.baselines, new.baselines)
              /\ new.monthly_patterns = old.monthly_patterns
              /\ new.user_id = old.user_id
      ]_vars

\* Two DINING debits were folded, then a GROCERIES debit: DINING's record
\* still has the mean the second DINING fold left, not a decayed one.
C27_Witness ==
    /\ Len(folded) = 3
    /\ folded[1].category = "DINING"
    /\ folded[2].category = "DINING"
    /\ folded[3].category = "GROCERIES"
    /\ tx_category = "GROCERIES"
    /\ DOMAIN RowOf(db).category_stats = {"DINING", "GROCERIES"}
    /\ RowOf(db).category_stats["DINING"] =
           fold_stats(fold_stats(EmptyMap, "DINING", folded[1].amount),
                      "DINING", folded[2].amount)["DINING"]
    /\ RowOf(db).category_stats["DINING"].count = 2
    /\ RowOf(db).category_stats["DINING"].mean > 0


\* habits[key], or the zeros update_model starts the list with.
Distribution(habits, key, buckets) ==
    IF key \in DOMAIN habits THEN habits[key] ELSE [i \in 1..buckets |-> 0]

\* The list after is the list before with bucket i (from 0) raised by one
\* and every other bucket as it was.
OneBucketRaised(before, after, i) ==
    /\ DOMAIN after = DOMAIN before
    /\ \A k \in DOMAIN before :
           after[k] = IF k = i + 1 THEN before[k] + 1 ELSE before[k]

\* The debits folded so far that had a timestamp.
TimestampedFolded == {i \in DOMAIN folded : folded[i].timestamp.present}

\* C28: an update_model call that folds a debit with a timestamp raises
\* hourly_distribution[hour] and weekly_distribution[weekday] by one and no
\* other bucket; one that folds a debit without a timestamp leaves habits
\* as they were; either way the category's record, elasticity and baseline,
\* impulse_score and transaction_count are updated. In every state the two
\* distributions each sum to the number of timestamped debits folded, which
\* is at most transaction_count.
C28_HabitTracking ==
    /\ [][FoldStep =>
             LET old == RowOf(db)
                 new == RowOf(db')
                 c == tx_category'
                 timestamp == tx'.timestamp
             IN  /\ timestamp.present =>
                        /\ DOMAIN new.habits =
                               {"hourly_distribution", "weekly_distribution"}
                        /\ OneBucketRaised(
                               Distribution(old.habits, "hourly_distribution", 24),
                               new.habits["hourly_distribution"], timestamp.hour)
                        /\ OneBucketRaised(
                               Distribution(old.habits, "weekly_distribution", 7),
                               new.habits["weekly_distribution"], timestamp.weekday)
                 /\ ~timestamp.present => new.habits = old.habits
                 /\ new.category_stats[c].count =
                        (IF c \in DOMAIN old.category_stats
                         THEN old.category_stats[c].count ELSE 0) + 1
                 /\ new.elasticity[c] = calculate_elasticity(c, new.category_stats[c])
                 /\ c \in DOMAIN new.baselines
                 /\ new.impulse_score =
                        update_impulse_score(
                            old.impulse_score,
                            detect_impulse([tx' EXCEPT !.category = c],
                                           new.category_stats))
                 /\ new.transaction_count = old.transaction_count + 1
         ]_vars
    /\ [](LET habits == RowOf(db).habits
          IN  /\ SumSeq(Distribution(habits, "hourly_distribution", 24))
                     = Cardinality(TimestampedFolded)
              /\ SumSeq(Distribution(habits, "weekly_distribution", 7))
                     = Cardinality(TimestampedFolded)
              /\ Cardinality(TimestampedFolded) <= RowOf(db).transaction_count)

\* Three debits were folded, the first and the last on a Saturday at 23:00,
\* the second without a timestamp: bucket 23 and bucket 5 hold 2.
C28_Witness ==
    /\ Len(folded) = 3
    /\ folded[1].timestamp.present
    /\ ~folded[2].timestamp.present
    /\ folded[3].timestamp = [present |-> TRUE, hour |-> 23, weekday |-> 5]
    /\ RowOf(db).transaction_count = 3
    /\ "hourly_distribution" \in DOMAIN RowOf(db).habits
    /\ RowOf(db).habits["hourly_distribution"][24] = 2
    /\ RowOf(db).habits["weekly_distribution"][6] = 2


\* The amounts of the debits folded into category c, in order.
RECURSIVE AmountsFolded(_, _)
AmountsFolded(txs, c) ==
    IF txs = <<>> THEN <<>>
    ELSE IF Head(txs).category = c
    THEN <<Head(txs).amount>> \o AmountsFolded(Tail(txs), c)
    ELSE AmountsFolded(Tail(txs), c)

\* C29: starting from no model, after any sequence of update_model calls
\* made one after the other, transaction_count is the number of debits
\* folded and the sum of all categories' counts, and each category's count
\* and sum are the number and the total of the amounts folded into it (time
\* decay changes neither).
C29_CountingInvariant ==
    LET m == RowOf(db)
        stats == m.category_stats
    IN  /\ m.transaction_count = Len(folded)
        /\ m.transaction_count = sum_values([c \in DOMAIN stats |-> stats[c].count])
        /\ DOMAIN stats = {folded[i].category : i \in DOMAIN folded}
        /\ \A c \in DOMAIN stats :
               /\ stats[c].count = Len(AmountsFolded(folded, c))
               /\ stats[c].sum = SumSeq(AmountsFolded(folded, c))

\* Three debits were folded, two of 10 and 30 in DINING (the second after a
\* decay of DINING's record) and one in another category.
C29_Witness ==
    /\ Len(folded) = 3
    /\ RowOf(db).transaction_count = 3
    /\ Cardinality(DOMAIN RowOf(db).category_stats) = 2
    /\ "DINING" \in DOMAIN RowOf(db).category_stats
    /\ RowOf(db).category_stats["DINING"].count = 2
    /\ RowOf(db).category_stats["DINING"].sum = 40 * SCALE
    /\ RowOf(db).category_stats["DINING"].mean < 20 * SCALE


\* C30: every confidence in the category_breakdown that
\* simulate_spending_scenario returns lies in [0, 1].
C30_ConfidenceInUnitInterval ==
    (ScenarioCalled /\ sim.result.raised = "") =>
        \A c \in DOMAIN sim.result.category_breakdown :
            /\ sim.result.category_breakdown[c].confidence >= 0
            /\ sim.result.category_breakdown[c].confidence <= SCALE

====
